---- MODULE Spec2Model ----
(***************************************************************************)
(* A model of gx (src/gx.go): the lowering of a parsed and type-checked Go *)
(* program into C++ text.  The input program is a value (src); the         *)
(* Compiler struct is the record c; compile() runs as a sequence of phase  *)
(* actions; main() gates the artifact on the diagnostics.                  *)
(*                                                                         *)
(* Text is modelled as a sequence of tokens (a Go string is the            *)
(* concatenation of its tokens).  A type's identity is its structure:      *)
(* go/types keeps one object per basic and per named type, and the input   *)
(* programs use no unsupported composite type (map, channel) twice.        *)
(* A function that returns a string leaves it in the field ret of the      *)
(* compiler record it returns.                                             *)
(***************************************************************************)
EXTENDS Integers, Sequences, FiniteSets, TLC

VARIABLES
    src,                \* the input directory: environment, declarations
    pc,                 \* position in main()/compile()
    c,                  \* the Compiler struct
    typeSpecs,          \* compile: var typeSpecs []*ast.TypeSpec
    typeSpecCollected,  \* compile: typeSpecCollected map
    stack,              \* call stack of the nested ast.Inspect calls
    funcIndex,          \* index of the FuncDecl the running loop is at
    marks,              \* output length at the end of each section written
    outFile,            \* the file at outputPath
    stdout              \* what main printed

vars == <<src, pc, c, typeSpecs, typeSpecCollected, stack, funcIndex, marks,
          outFile, stdout>>

-----------------------------------------------------------------------------
(* Generic helpers *)

Range(s) == {s[i] : i \in DOMAIN s}

Put(f, k, v) == [y \in (DOMAIN f) \cup {k} |-> IF y = k THEN v ELSE f[y]]

EmptyMap == [y \in {} |-> <<>>]

Last(s) == s[Len(s)]

-----------------------------------------------------------------------------
(* Semantic types (go/types) *)

Basic(n) == [k |-> "basic", name |-> n]
Pointer(t) == [k |-> "pointer", elem |-> t]
Named(n, targs) == [k |-> "named", name |-> n, targs |-> targs]
TypeParam(n) == [k |-> "typeparam", name |-> n]
Signature == [k |-> "signature"]
Array(t, n) == [k |-> "array", elem |-> t, len |-> n]
Slice(t) == [k |-> "slice", elem |-> t]
Map == [k |-> "map"]
NilType == [k |-> "nil"]

TInt == Basic("int")
TBool == Basic("bool")
TFloat32 == Basic("float32")
TFloat64 == Basic("float64")
TString == Basic("string")

\* The declaration (*ast.TypeSpec) of the top-level type called n.
TypeSpecOf(n) == CHOOSE t \in Range(src.types) : t.name = n

IsDeclared(n) == \E t \in Range(src.types) : t.name = n

\* The type with the type parameters tparams replaced by the arguments targs.
RECURSIVE Subst(_, _, _)
Subst(typ, tparams, targs) ==
    CASE typ.k = "typeparam" ->
           IF \E i \in DOMAIN tparams : i <= Len(targs) /\ tparams[i] = typ.name
           THEN targs[CHOOSE i \in DOMAIN tparams : tparams[i] = typ.name]
           ELSE typ
      [] typ.k \in {"pointer", "slice", "array"} ->
           [typ EXCEPT !.elem = Subst(@, tparams, targs)]
      [] typ.k = "named" ->
           [typ EXCEPT !.targs = [i \in DOMAIN @ |-> Subst(@[i], tparams, targs)]]
      [] OTHER -> typ

\* The fields of an instantiated struct declaration.
SubstFields(fields, tparams, targs) ==
    [i \in DOMAIN fields |->
        [fields[i] EXCEPT !.typ = Subst(@, tparams, targs)]]

\* types.Type.Underlying(): a named type's underlying type is that of its
\* declaration, instantiated; a struct declaration yields a struct type.
RECURSIVE Underlying(_)
UnderlyingOfSpec(ts, targs) ==
    CASE ts.kind = "struct" ->
           [k |-> "struct", fields |-> SubstFields(ts.fields, ts.tparams, targs)]
      [] ts.kind = "interface" -> [k |-> "interface"]
      [] OTHER -> Underlying(Subst(ts.typ, ts.tparams, targs))

Underlying(typ) ==
    IF typ.k = "named" THEN UnderlyingOfSpec(TypeSpecOf(typ.name), typ.targs)
    ELSE typ

-----------------------------------------------------------------------------
(* Error and writing utilities *)

\* A runtime panic: the process dies, nothing after it takes effect.
panic(cc) == [cc EXCEPT !.panicked = TRUE]

errorf(cc, pos, msg) ==
    IF cc.panicked THEN cc
    ELSE [cc EXCEPT !.errors = Append(@, [pos |-> pos, msg |-> msg])]

errored(cc) == Len(cc.errors) # 0

\* Whether the token ends in '\n'.
EndsInNewline(tok) ==
    tok \in {"\n", "\n\n", ";\n", "{\n", ",\n", ">\n", "#include \"gx.hh\"\n"}

Spaces(n) == [i \in 1..n |-> " "]

\* c.write(s), s a string given as its tokens.
write(cc, s) ==
    IF cc.panicked THEN cc
    ELSE [cc EXCEPT !.atBlockEnd = FALSE,
                    !.output = @ \o (IF Len(@) > 0 /\ EndsInNewline(Last(@))
                                     THEN Spaces(2 * cc.indent) ELSE <<>>)
                                 \o s]

trimFinalSpace(s) ==
    IF Len(s) > 0 /\ Last(s) = " " THEN SubSeq(s, 1, Len(s) - 1) ELSE s

\* The returned string: set, extended at either end, trimmed, written.
Returns(cc, s) == [cc EXCEPT !.ret = s]
ReturnAfter(cc, s) == [cc EXCEPT !.ret = @ \o s]
ReturnBefore(cc, s) == [cc EXCEPT !.ret = s \o @]
ReturnTrimmed(cc) == [cc EXCEPT !.ret = trimFinalSpace(@)]
writeReturned(cc) == write(cc, cc.ret)

-----------------------------------------------------------------------------
(* Types *)

\* The names of a struct's fields in declaration order (typ.Field(i)).
FieldNames(fields) ==
    LET RECURSIVE flat(_)
        flat(i) == IF i > Len(fields) THEN <<>>
                   ELSE fields[i].names \o flat(i + 1)
    IN flat(1)

\* The ordinal of the field called name among names.
Ordinal(names, name) == (CHOOSE i \in DOMAIN names : names[i] = name) - 1

\* A field (*types.Var) is identified by its struct and its name.
storeFieldIndices(cc, sname, names) ==
    IF <<sname, names[1]>> \in DOMAIN cc.fieldIndices THEN cc
    ELSE [cc EXCEPT !.fieldIndices =
             [f \in (DOMAIN @) \cup {<<sname, names[i]>> : i \in DOMAIN names} |->
                 IF f \in DOMAIN @ THEN @[f] ELSE Ordinal(names, f[2])]]

computeFieldIndices(cc, sname, fields) ==
    IF Len(FieldNames(fields)) = 0 THEN cc
    ELSE storeFieldIndices(cc, sname, FieldNames(fields))

BasicSpelling ==
    [n \in {"bool", "int", "float32", "float64"} |->
        CASE n = "bool" -> "bool"
          [] n = "int" -> "int"
          [] n = "float32" -> "float"
          [] n = "float64" -> "double"]

\* strconv.FormatInt(n, 10), as the sequence of its digits.
FormatInt(n) ==
    LET digit == <<"0", "1", "2", "3", "4", "5", "6", "7", "8", "9">>
        RECURSIVE fmt(_)
        fmt(m) == IF m < 10 THEN <<digit[m + 1]>>
                  ELSE fmt(m \div 10) \o <<digit[(m % 10) + 1]>>
    IN fmt(n)

RECURSIVE genTypeExpr(_, _, _)
RECURSIVE genTypeArgs(_, _, _, _, _)
RECURSIVE genTypeArgsNext(_, _, _, _, _)

\* The loop over the type arguments from i on; acc is the builder so far.
genTypeArgs(cc, targs, i, pos, acc) ==
    IF i > Len(targs) THEN Returns(cc, acc)
    ELSE genTypeArgsNext(genTypeExpr(cc, targs[i], pos), targs, i, pos,
                         IF i > 1 THEN acc \o <<", ">> ELSE acc)

genTypeArgsNext(cc, targs, i, pos, acc) ==
    genTypeArgs(cc, targs, i + 1, pos, acc \o trimFinalSpace(cc.ret))

\* The switch of genTypeExpr, run when the type is not memoized.
genTypeExprFresh(cc, typ, pos) ==
    CASE typ.k = "basic" ->
           IF typ.name \in DOMAIN BasicSpelling
           THEN Returns(cc, <<BasicSpelling[typ.name], " ">>)
           ELSE Returns(errorf(cc, pos, "%s not supported"), <<" ">>)
      [] typ.k = "pointer" ->
           ReturnAfter(genTypeExpr(cc, typ.elem, pos), <<"*">>)
      [] typ.k = "named" ->
           IF typ.targs # <<>>
           THEN ReturnAfter(genTypeArgs(cc, typ.targs, 1, pos, <<typ.name, "<">>),
                            <<">", " ">>)
           ELSE Returns(cc, <<typ.name, " ">>)
      [] typ.k = "typeparam" -> Returns(cc, <<typ.name, " ">>)
      [] typ.k = "signature" -> Returns(cc, <<"auto &&">>)
      [] typ.k = "array" ->
           ReturnAfter(
               ReturnBefore(ReturnTrimmed(genTypeExpr(cc, typ.elem, pos)),
                            <<"gx::Array<">>),
               <<", ">> \o FormatInt(typ.len) \o <<">", " ">>)
      [] typ.k = "slice" ->
           ReturnAfter(
               ReturnBefore(ReturnTrimmed(genTypeExpr(cc, typ.elem, pos)),
                            <<"gx::Slice<">>),
               <<">", " ">>)
      [] OTHER -> Returns(errorf(cc, pos, "%s not supported"), <<>>)

memoTypeExpr(cc, typ) == [cc EXCEPT !.genTypeExprs = Put(@, typ, cc.ret)]

genTypeExpr(cc, typ, pos) ==
    IF typ \in DOMAIN cc.genTypeExprs
    THEN Returns(cc, cc.genTypeExprs[typ])
    ELSE memoTypeExpr(genTypeExprFresh(cc, typ, pos), typ)

\* "template<typename A, typename B>\n" for a non-nil type parameter list.
TemplatePrologue(tparams) ==
    LET RECURSIVE names(_)
        names(i) == IF i > Len(tparams) THEN <<>>
                    ELSE (IF i > 1 THEN <<", ">> ELSE <<>>)
                         \o <<"typename ", tparams[i]>> \o names(i + 1)
    IN IF tparams = <<>> THEN <<>>
       ELSE <<"template<">> \o names(1) \o <<">\n">>

\* The body of genTypeDecl, run when the declaration is not memoized.
genTypeDeclFresh(cc, typeSpec) ==
    CASE typeSpec.kind = "struct" ->
           Returns(cc, TemplatePrologue(typeSpec.tparams)
                      \o <<"struct ", typeSpec.name>>)
      [] typeSpec.kind = "interface" ->
           Returns(cc, TemplatePrologue(typeSpec.tparams))
      [] OTHER ->
           ReturnBefore(
               ReturnTrimmed(genTypeExpr(cc, typeSpec.typ, typeSpec.typPos)),
               TemplatePrologue(typeSpec.tparams)
               \o <<"using ", typeSpec.name, " = ">>)

memoTypeDecl(cc, name) == [cc EXCEPT !.genTypeDecls = Put(@, name, cc.ret)]

genTypeDecl(cc, typeSpec) ==
    IF typeSpec.name \in DOMAIN cc.genTypeDecls
    THEN Returns(cc, cc.genTypeDecls[typeSpec.name])
    ELSE memoTypeDecl(genTypeDeclFresh(cc, typeSpec), typeSpec.name)

\* The lines of one field declaration: one per name.
FieldLines(typeExpr, names) ==
    LET RECURSIVE lines(_)
        lines(j) == IF j > Len(names) THEN <<>>
                    ELSE <<"  ">> \o typeExpr \o <<names[j], ";\n">>
                         \o lines(j + 1)
    IN lines(1)

\* The loop over the fields of a struct definition, from i on.
RECURSIVE genFields(_, _, _, _)
RECURSIVE genFieldsNext(_, _, _, _)
genFields(cc, fields, i, acc) ==
    IF i > Len(fields) THEN Returns(cc, acc)
    ELSE IF fields[i].typ # NilType
    THEN genFieldsNext(genTypeExpr(cc, fields[i].typ, fields[i].pos),
                       fields, i, acc)
    ELSE genFields(cc, fields, i + 1, acc)

genFieldsNext(cc, fields, i, acc) ==
    genFields(cc, fields, i + 1, acc \o FieldLines(cc.ret, fields[i].names))

\* The struct case of genTypeDefn, cc returned by genTypeDecl.
genStructDefn(cc, typeSpec) ==
    ReturnAfter(genFields(cc, typeSpec.fields, 1, cc.ret \o <<" {\n">>),
                <<"}">>)

genTypeDefnFresh(cc, typeSpec) ==
    IF typeSpec.kind = "struct"
    THEN genStructDefn(genTypeDecl(cc, typeSpec), typeSpec)
    ELSE Returns(cc, <<>>)

memoTypeDefn(cc, name) == [cc EXCEPT !.genTypeDefns = Put(@, name, cc.ret)]

genTypeDefn(cc, typeSpec) ==
    IF typeSpec.name \in DOMAIN cc.genTypeDefns
    THEN Returns(cc, cc.genTypeDefns[typeSpec.name])
    ELSE memoTypeDefn(genTypeDefnFresh(cc, typeSpec), typeSpec.name)

-----------------------------------------------------------------------------
(* Effects *)

\* A method of the Compiler that walks the syntax is modelled by the
\* sequence of its effects on the Compiler, in program order: what it
\* writes, the diagnostics it records, the fields it sets.  An effect whose
\* outcome depends on the Compiler (a memoised generator, the semicolon
\* after a statement) stays one effect, decided when it takes place.
Write(tok) == <<[op |-> "write", s |-> <<tok>>]>>
Errorf(pos, msg) == <<[op |-> "errorf", pos |-> pos, msg |-> msg]>>
Indent(d) == <<[op |-> "indent", d |-> d]>>
AtBlockEnd(b) == <<[op |-> "atBlockEnd", b |-> b]>>
Panic == <<[op |-> "panic"]>>

\* if !c.atBlockEnd { c.write(";") }
Semicolon == <<[op |-> "semicolon"]>>

\* c.write(c.genTypeExpr(typ, pos)), or the same through trimFinalSpace.
WriteTypeExpr(typ, pos) ==
    <<[op |-> "writeTypeExpr", typ |-> typ, pos |-> pos, trim |-> FALSE]>>
WriteTypeExprTrimmed(typ, pos) ==
    <<[op |-> "writeTypeExpr", typ |-> typ, pos |-> pos, trim |-> TRUE]>>

\* computeFieldIndices and the loop over the keys of a struct literal.
CheckFieldOrder(lit) == <<[op |-> "checkFieldOrder", lit |-> lit]>>

\* One iteration of a loop of compile over typeSpecs or over the FuncDecls.
WriteTypeDecl(name) == <<[op |-> "writeTypeDecl", name |-> name]>>
WriteTypeDefn(name) == <<[op |-> "writeTypeDefn", name |-> name]>>
WriteFuncDecl(decl) == <<[op |-> "writeFuncDecl", decl |-> decl]>>

\* builder.WriteString(s); builder.WriteString(c.genTypeExpr(typ, pos))
Build(s) == <<[op |-> "build", s |-> s]>>
BuildTypeExpr(typ, pos) == <<[op |-> "buildTypeExpr", typ |-> typ, pos |-> pos]>>

\* The effects code[lo..hi] take place on cc one after the other; a panic
\* ends them.
RECURSIVE Exec(_, _, _, _)
Run(cc, code) == Exec(cc, code, 1, Len(code))

-----------------------------------------------------------------------------
(* Functions *)

\* types.SizesFor("gc", "wasm"): 8-byte words, 8-byte maximal alignment.
WordSize == 8
MaxAlign == 8

align(x, a) == (x + a - 1) - ((x + a - 1) % a)

\* The field types of a struct type, one per name.
FlatFields(fields) ==
    LET RECURSIVE flat(_)
        flat(i) == IF i > Len(fields) THEN <<>>
                   ELSE [j \in 1..Len(fields[i].names) |-> fields[i].typ]
                        \o flat(i + 1)
    IN flat(1)

Max(a, b) == IF a > b THEN a ELSE b

\* sizes.Sizeof and sizes.Alignof (go/types StdSizes).
RECURSIVE Sizeof(_)
RECURSIVE Alignof(_)
RECURSIVE StructEnd(_, _, _)
RECURSIVE StructAlign(_, _, _)

\* The offset after the fields from i on, laid out from offset o.
StructEnd(ftypes, i, o) ==
    IF i > Len(ftypes) THEN o
    ELSE StructEnd(ftypes, i + 1,
                   align(o, Alignof(ftypes[i])) + Sizeof(ftypes[i]))

\* The largest alignment of the fields from i on, at least max.
StructAlign(ftypes, i, max) ==
    IF i > Len(ftypes) THEN max
    ELSE StructAlign(ftypes, i + 1, Max(max, Alignof(ftypes[i])))

\* Sizeof on an underlying type.
SizeofUnder(t) ==
    CASE t.k = "basic" ->
           CASE t.name = "bool" -> 1
             [] t.name = "float32" -> 4
             [] t.name = "float64" -> 8
             [] t.name = "string" -> WordSize * 2
             [] OTHER -> WordSize
      [] t.k = "array" ->
           IF t.len <= 0 THEN 0
           ELSE align(Sizeof(t.elem), Alignof(t.elem)) * (t.len - 1)
                + Sizeof(t.elem)
      [] t.k = "slice" -> WordSize * 3
      [] t.k = "struct" -> StructEnd(FlatFields(t.fields), 1, 0)
      [] t.k = "interface" -> WordSize * 2
      [] OTHER -> WordSize

Sizeof(typ) == SizeofUnder(Underlying(typ))

Clamp(a) == IF a < 1 THEN 1 ELSE IF a > MaxAlign THEN MaxAlign ELSE a

AlignofUnder(t) ==
    CASE t.k = "array" -> Alignof(t.elem)
      [] t.k = "struct" -> StructAlign(FlatFields(t.fields), 1, 1)
      [] t.k \in {"slice", "interface"} -> WordSize
      [] t.k = "basic" /\ t.name = "string" -> WordSize
      [] OTHER -> Clamp(SizeofUnder(t))

Alignof(typ) == AlignofUnder(Underlying(typ))

\* Whether Sizeof reaches a type parameter, on which it panics.
RECURSIVE SizeofPanics(_)
SizeofPanicsUnder(t) ==
    CASE t.k = "typeparam" -> TRUE
      [] t.k = "array" -> t.len > 0 /\ SizeofPanics(t.elem)
      [] t.k = "struct" ->
           \E f \in Range(FlatFields(t.fields)) : SizeofPanics(f)
      [] OTHER -> FALSE

SizeofPanics(typ) == SizeofPanicsUnder(Underlying(typ))

\* sizeOf: the deferred recover() turns a panic into the zero result.
sizeOf(typ) == IF SizeofPanics(typ) THEN 0 ELSE Sizeof(typ)

\* The by-value size above which a parameter is rejected.
MaxParamSize == 96

addTypeParams(tparams) == TemplatePrologue(tparams)

\* The type parameters of the receiver's named type, named directly or
\* through a pointer.
RecvTypeParams(decl) ==
    IF decl.recv = <<>> THEN <<>>
    ELSE CASE decl.recv[1].typ.k = "named" ->
                TypeSpecOf(decl.recv[1].typ.name).tparams
           [] decl.recv[1].typ.k = "pointer"
              /\ decl.recv[1].typ.elem.k = "named" ->
                TypeSpecOf(decl.recv[1].typ.elem.name).tparams
           [] OTHER -> <<>>

\* addParam: the switch on the underlying type.
checkPassedByValue(param) ==
    CASE Underlying(param.typ).k = "array" ->
           Errorf(param.pos, "cannot pass array by value, use pointer to array *%s instead")
      [] Underlying(param.typ).k = "slice" ->
           Errorf(param.pos, "cannot pass slice by value, use pointer to slice *%s instead")
      [] OTHER -> <<>>

\* A size check that rejects a parameter of MaxParamSize bytes too.
checkSizeInclusive(param) ==
    IF sizeOf(param.typ) >= MaxParamSize
    THEN Errorf(param.pos, "%s is large (%d bytes), consider passing by pointer instead")
    ELSE <<>>

\* addParam: the size check.
checkSize(param) ==
    IF sizeOf(param.typ) > MaxParamSize
    THEN Errorf(param.pos, "%s is large (%d bytes), consider passing by pointer instead")
    ELSE <<>>

addParam(param) ==
    checkPassedByValue(param) \o checkSize(param)
    \o BuildTypeExpr(param.typ, param.pos) \o Build(<<param.name>>)

\* The parameters from i on; sep says whether a separator precedes the
\* next one.
RECURSIVE addParams(_, _, _)
addParams(params, i, sep) ==
    IF i > Len(params) THEN <<>>
    ELSE (IF sep THEN Build(<<", ">>) ELSE <<>>)
         \o addParam(params[i]) \o addParams(params, i + 1, TRUE)

\* genFuncDecl: the return type.
genResult(decl) ==
    IF Len(decl.results) > 1
    THEN Errorf(decl.resultsPos, "multiple return values not supported")
    ELSE IF Len(decl.results) = 1
    THEN BuildTypeExpr(decl.results[1].typ, decl.results[1].pos)
    ELSE IF src.pkg = "main" /\ decl.name = "main" /\ decl.recv = <<>>
    THEN Build(<<"int ">>)
    ELSE Build(<<"void ">>)

\* genFuncDecl on a declaration it has not met: the builder is ret.
genFuncDeclFresh(decl) ==
    Build(addTypeParams(RecvTypeParams(decl)) \o addTypeParams(decl.tparams))
    \o genResult(decl)
    \o Build(<<decl.name, "(">>)
    \o addParams(decl.recv, 1, FALSE)
    \o addParams(decl.params, 1, decl.recv # <<>>)
    \o Build(<<")">>)

memoFuncDecl(cc, name) == [cc EXCEPT !.genFuncDecls = Put(@, name, cc.ret)]

\* A genFuncDecl that generates the declaration at every call.
genFuncDeclAnew(cc, decl) ==
    memoFuncDecl(Run(Returns(cc, <<>>), genFuncDeclFresh(decl)), decl.name)

genFuncDecl(cc, decl) ==
    IF decl.name \in DOMAIN cc.genFuncDecls
    THEN Returns(cc, cc.genFuncDecls[decl.name])
    ELSE memoFuncDecl(Run(Returns(cc, <<>>), genFuncDeclFresh(decl)), decl.name)

-----------------------------------------------------------------------------
-----------------------------------------------------------------------------
(* Effects taking place *)

\* c.fieldIndices[field], zero for a field the map does not hold.
fieldIndex(cc, field) ==
    IF field \in DOMAIN cc.fieldIndices THEN cc.fieldIndices[field] ELSE 0

\* The loop of writeCompositeLit over the keys of a struct literal, from
\* element i on.
RECURSIVE checkFieldOrder(_, _, _, _, _)
checkFieldOrder(cc, lit, sname, i, lastIndex) ==
    IF i > Len(lit.elts) THEN cc
    ELSE IF fieldIndex(cc, <<sname, lit.elts[i].key.name>>) < lastIndex
    THEN errorf(cc, lit.pos, "struct literal fields must appear in definition order")
    ELSE checkFieldOrder(cc, lit, sname, i + 1,
                         fieldIndex(cc, <<sname, lit.elts[i].key.name>>))

\* The body of the loop over typeSpecs writing the forward declarations,
\* cc returned by genTypeDecl.
writeTypeDecl(cc) ==
    IF cc.ret # <<>> THEN write(writeReturned(cc), <<";\n">>) ELSE cc

\* The body of the loop over typeSpecs writing the definitions, cc returned
\* by genTypeDefn.
writeTypeDefn(cc) ==
    IF cc.ret # <<>>
    THEN write(writeReturned(write(cc, <<"\n">>)), <<";\n">>)
    ELSE cc

\* One effect takes place.
Step(cc, ins) ==
    CASE ins.op = "write" -> write(cc, ins.s)
      [] ins.op = "errorf" -> errorf(cc, ins.pos, ins.msg)
      [] ins.op = "indent" -> [cc EXCEPT !.indent = @ + ins.d]
      [] ins.op = "atBlockEnd" -> [cc EXCEPT !.atBlockEnd = ins.b]
      [] ins.op = "panic" -> panic(cc)
      [] ins.op = "semicolon" ->
           IF ~cc.atBlockEnd THEN write(cc, <<";">>) ELSE cc
      [] ins.op = "writeTypeExpr" ->
           writeReturned(IF ins.trim
                         THEN ReturnTrimmed(genTypeExpr(cc, ins.typ, ins.pos))
                         ELSE genTypeExpr(cc, ins.typ, ins.pos))
      [] ins.op = "checkFieldOrder" ->
           checkFieldOrder(
               computeFieldIndices(cc, ins.lit.typ.name,
                                   Underlying(ins.lit.typ).fields),
               ins.lit, ins.lit.typ.name, 1, 0)
      [] ins.op = "writeTypeDecl" ->
           writeTypeDecl(genTypeDecl(cc, TypeSpecOf(ins.name)))
      [] ins.op = "writeTypeDefn" ->
           writeTypeDefn(genTypeDefn(cc, TypeSpecOf(ins.name)))
      [] ins.op = "writeFuncDecl" -> writeReturned(genFuncDecl(cc, ins.decl))
      [] ins.op = "build" -> ReturnAfter(cc, ins.s)
      [] ins.op = "buildTypeExpr" ->
           ReturnBefore(genTypeExpr(cc, ins.typ, ins.pos), cc.ret)

\* The effects after code[mid], cc left by those up to it.
ExecRest(cc, code, mid, hi) ==
    IF cc.panicked THEN cc ELSE Exec(cc, code, mid + 1, hi)

Exec(cc, code, lo, hi) ==
    IF lo > hi THEN cc
    ELSE IF lo = hi THEN Step(cc, code[lo])
    ELSE ExecRest(Exec(cc, code, lo, (lo + hi) \div 2), code,
                  (lo + hi) \div 2, hi)

-----------------------------------------------------------------------------
(* Expressions *)

\* Whether c.types.TypeOf(expr) is a *types.Pointer.
IsPointerTyped(expr) == "ptr" \in DOMAIN expr /\ expr.ptr

\* c.types.Types[expr].Addressable()
Addressable(expr) == "addr" \in DOMAIN expr /\ expr.addr

UnaryPassThrough == {"+", "-", "!"}

BinaryPassThrough ==
    {"==", "!=", "<", "<=", ">", ">=", "+", "-", "*", "/", "%",
     "&", "|", "^", "<<", ">>"}

AssignPassThrough ==
    {"=", "+=", "-=", "*=", "/=", "%=", "&=", "|=", "^=", "<<=", ">>="}

writeIdent(ident) ==
    (IF ident.builtin THEN Write("gx::") ELSE <<>>) \o Write(ident.name)

writeBasicLit(lit) ==
    IF lit.kind \in {"INT", "FLOAT", "STRING"}
    THEN Write(lit.value)
    ELSE Errorf(lit.pos, "unsupported literal kind")

RECURSIVE writeExpr(_)
RECURSIVE writeStmt(_)
RECURSIVE writeStmtList(_, _)
RECURSIVE writeBlockStmt(_)

\* writeExpr on the elements from i on, each after the first preceded by
\* ", " (single-line literal, arguments of a call).
RECURSIVE writeExprsInline(_, _, _)
writeExprsInline(elts, i, sep) ==
    IF i > Len(elts) THEN <<>>
    ELSE (IF sep THEN Write(", ") ELSE <<>>)
         \o writeExpr(elts[i]) \o writeExprsInline(elts, i + 1, TRUE)

\* writeExpr on the elements from i on, each followed by ",\n".
RECURSIVE writeExprsLines(_, _)
writeExprsLines(elts, i) ==
    IF i > Len(elts) THEN <<>>
    ELSE writeExpr(elts[i]) \o Write(",\n") \o writeExprsLines(elts, i + 1)

\* The parameters of a closure from i on.
RECURSIVE writeFuncLitParams(_, _)
writeFuncLitParams(params, i) ==
    IF i > Len(params) THEN <<>>
    ELSE (IF i > 1 THEN Write(", ") ELSE <<>>)
         \o WriteTypeExpr(params[i].typ, params[i].pos)
         \o Write(params[i].name)
         \o writeFuncLitParams(params, i + 1)

\* A closure written without the reset of atBlockEnd after its body.
writeFuncLitAtBlockEnd(lit) ==
    Write("[&](") \o writeFuncLitParams(lit.params, 1) \o Write(") ")
    \o writeBlockStmt(lit.body)

writeFuncLit(lit) ==
    Write("[&](") \o writeFuncLitParams(lit.params, 1) \o Write(") ")
    \o writeBlockStmt(lit.body) \o AtBlockEnd(FALSE)

\* writeCompositeLit: the check of a keyed literal.  c.types.TypeOf of the
\* literal's type expression is nil when that expression is elided, and
\* the call of Underlying on it panics.
checkKeys(lit) ==
    IF lit.elts[1].k # "keyvalue" THEN <<>>
    ELSE IF lit.elided THEN Panic
    ELSE IF Underlying(lit.typ).k = "struct" THEN CheckFieldOrder(lit)
    ELSE <<>>

\* writeCompositeLit: the elements, on one line or one per line.
writeElts(lit) ==
    IF lit.oneLine
    THEN Write(" ") \o writeExprsInline(lit.elts, 1, FALSE) \o Write(" ")
    ELSE Write("\n") \o Indent(1) \o writeExprsLines(lit.elts, 1) \o Indent(-1)

writeCompositeLit(lit) ==
    WriteTypeExpr(lit.typ, lit.pos) \o Write("{")
    \o (IF Len(lit.elts) > 0 THEN checkKeys(lit) \o writeElts(lit) ELSE <<>>)
    \o Write("}")

writeParenExpr(bin) == Write("(") \o writeExpr(bin.x) \o Write(")")

writeSelectorExpr(sel) ==
    writeExpr(sel.x)
    \o (IF IsPointerTyped(sel.x) THEN Write("->") ELSE Write("."))
    \o writeIdent(sel.sel)

writeIndexExpr(ind) ==
    (IF IsPointerTyped(ind.x)
     THEN Write("(*(") \o writeExpr(ind.x) \o Write("))")
     ELSE writeExpr(ind.x))
    \o Write("[") \o writeExpr(ind.index) \o Write("]")

\* Whether the callee is a selector whose c.types.Uses entry is a
\* signature with a receiver.
IsMethodCall(call) ==
    call.fun.k = "selector" /\ call.fun.recv \in {"value", "pointer"}

\* A receiver argument written as it stands, whatever the method expects.
writeReceiverUnadjusted(sel) == writeExpr(sel.x)

\* writeCallExpr: the receiver argument of a method call.
writeReceiver(sel) ==
    IF IsPointerTyped(sel.x) /\ sel.recv # "pointer"
    THEN Write("*(") \o writeExpr(sel.x) \o Write(")")
    ELSE IF ~IsPointerTyped(sel.x) /\ sel.recv = "pointer"
    THEN Write("&(") \o writeExpr(sel.x) \o Write(")")
    ELSE writeExpr(sel.x)

\* writeCallExpr: the type arguments of an instantiation, from i on.
RECURSIVE writeCallTypeArgs(_, _, _)
writeCallTypeArgs(targs, i, pos) ==
    IF i > Len(targs) THEN <<>>
    ELSE (IF i > 1 THEN Write(", ") ELSE <<>>)
         \o WriteTypeExprTrimmed(targs[i], pos)
         \o writeCallTypeArgs(targs, i + 1, pos)

\* writeCallExpr: the instantiation written after the callee.
writeInstance(call) ==
    IF call.fun.k = "ident" /\ call.typeArgs # <<>>
    THEN Write("<") \o writeCallTypeArgs(call.typeArgs, 1, call.fun.pos)
         \o Write(">")
    ELSE <<>>

writeCallExpr(call) ==
    (IF IsMethodCall(call)
     THEN writeIdent(call.fun.sel) \o Write("(") \o writeReceiver(call.fun)
     ELSE writeExpr(call.fun) \o writeInstance(call) \o Write("("))
    \o writeExprsInline(call.args, 1, IsMethodCall(call))
    \o Write(")")

writeStarExpr(star) == Write("*") \o writeExpr(star.x)

writeUnaryExpr(un) ==
    (CASE un.op \in UnaryPassThrough -> Write(un.op)
       [] un.op = "&" ->
            (IF ~Addressable(un.x)
             THEN Errorf(un.pos, "cannot take address of a temporary object")
             ELSE <<>>)
            \o Write(un.op)
       [] OTHER -> Errorf(un.pos, "unsupported unary operator"))
    \o writeExpr(un.x)

\* writeBinaryExpr: the switch on the operator.
writeBinaryOp(bin) ==
    IF bin.op \in BinaryPassThrough THEN Write(bin.op)
    ELSE Errorf(bin.opPos, "unsupported binary operator")

writeBinaryExpr(bin) ==
    writeExpr(bin.x) \o Write(" ") \o writeBinaryOp(bin) \o Write(" ")
    \o writeExpr(bin.y)

writeKeyValueExpr(kv) ==
    IF kv.key.k # "ident"
    THEN Errorf(kv.pos, "unsupported literal key")
    ELSE Write(".") \o Write(kv.key.name) \o Write(" = ") \o writeExpr(kv.value)

writeExpr(expr) ==
    CASE expr.k = "ident" -> writeIdent(expr)
      [] expr.k = "basiclit" -> writeBasicLit(expr)
      [] expr.k = "funclit" -> writeFuncLit(expr)
      [] expr.k = "complit" -> writeCompositeLit(expr)
      [] expr.k = "paren" -> writeParenExpr(expr)
      [] expr.k = "selector" -> writeSelectorExpr(expr)
      [] expr.k = "index" -> writeIndexExpr(expr)
      [] expr.k = "call" -> writeCallExpr(expr)
      [] expr.k = "star" -> writeStarExpr(expr)
      [] expr.k = "unary" -> writeUnaryExpr(expr)
      [] expr.k = "binary" -> writeBinaryExpr(expr)
      [] expr.k = "keyvalue" -> writeKeyValueExpr(expr)
      [] OTHER -> Errorf(expr.pos, "unsupported expression type")

-----------------------------------------------------------------------------
(* Statements *)

writeExprStmt(exprStmt) == writeExpr(exprStmt.x)

\* writeAssignStmt: the switch on the operator.
writeAssignOp(assignStmt) ==
    CASE assignStmt.tok = ":=" -> Write("=")
      [] assignStmt.tok \in AssignPassThrough -> Write(assignStmt.tok)
      [] OTHER -> Errorf(assignStmt.tokPos, "unsupported assignment operator")

writeAssignStmt(assignStmt) ==
    IF Len(assignStmt.lhs) # 1
    THEN Errorf(assignStmt.pos, "multi-value assignment unsupported")
    ELSE (IF assignStmt.tok = ":=" THEN Write("auto ") ELSE <<>>)
         \o writeExpr(assignStmt.lhs[1]) \o Write(" ")
         \o writeAssignOp(assignStmt) \o Write(" ")
         \o writeExpr(assignStmt.rhs[1])

writeReturnStmt(retStmt) ==
    IF Len(retStmt.results) > 1
    THEN Errorf(retStmt.results[1].pos, "multiple return values not supported")
    ELSE IF Len(retStmt.results) = 1
    THEN Write("return ") \o writeExpr(retStmt.results[1])
    ELSE Write("return")

writeBranchStmt(branchStmt) ==
    IF branchStmt.tok \in {"break", "continue"}
    THEN Write(branchStmt.tok)
    ELSE Errorf(branchStmt.pos, "unsupported branch statement")

writeBlockStmt(block) ==
    Write("{\n") \o Indent(1) \o writeStmtList(block.list, 1) \o Indent(-1)
    \o Write("}") \o AtBlockEnd(TRUE)

writeIfStmt(ifStmt) ==
    Write("if (")
    \o (IF ifStmt.init # <<>>
        THEN writeStmt(ifStmt.init[1]) \o Write("; ") ELSE <<>>)
    \o writeExpr(ifStmt.cond) \o Write(") ")
    \o writeStmt(ifStmt.body)
    \o (IF ifStmt.else # <<>>
        THEN Write(" else ") \o writeStmt(ifStmt.else[1]) ELSE <<>>)

writeForStmt(forStmt) ==
    Write("for (")
    \o (IF forStmt.init # <<>> THEN writeStmt(forStmt.init[1]) ELSE <<>>)
    \o Write("; ")
    \o (IF forStmt.cond # <<>> THEN writeExpr(forStmt.cond[1]) ELSE <<>>)
    \o Write("; ")
    \o (IF forStmt.post # <<>> THEN writeStmt(forStmt.post[1]) ELSE <<>>)
    \o Write(") ")
    \o writeStmt(forStmt.body)

writeStmt(stmt) ==
    CASE stmt.k = "exprstmt" -> writeExprStmt(stmt)
      [] stmt.k = "assign" -> writeAssignStmt(stmt)
      [] stmt.k = "return" -> writeReturnStmt(stmt)
      [] stmt.k = "branch" -> writeBranchStmt(stmt)
      [] stmt.k = "block" -> writeBlockStmt(stmt)
      [] stmt.k = "if" -> writeIfStmt(stmt)
      [] stmt.k = "for" -> writeForStmt(stmt)
      [] OTHER -> Errorf(stmt.pos, "unsupported statement type")

writeStmtList(list, i) ==
    IF i > Len(list) THEN <<>>
    ELSE writeStmt(list[i]) \o Semicolon \o Write("\n")
         \o writeStmtList(list, i + 1)

-----------------------------------------------------------------------------
(* Top-level: the type-spec collector of compile *)

\* The identifiers naming types that ast.Inspect meets in a type expression,
\* in syntax order.
RECURSIVE TypeIdents(_)
RECURSIVE TypeIdentsOfList(_, _)
TypeIdentsOfList(types, i) ==
    IF i > Len(types) THEN <<>>
    ELSE TypeIdents(types[i]) \o TypeIdentsOfList(types, i + 1)

TypeIdents(typ) ==
    CASE typ.k = "named" -> <<typ.name>> \o TypeIdentsOfList(typ.targs, 1)
      [] typ.k \in {"pointer", "array", "slice"} -> TypeIdents(typ.elem)
      [] OTHER -> <<>>

ParamTypes(params) == [i \in DOMAIN params |-> params[i].typ]

\* The children of a syntax node, in the order ast.Walk visits them.
Children(n) ==
    CASE n.k = "funclit" -> <<n.body>>
      [] n.k = "complit" -> n.elts
      [] n.k \in {"paren", "star", "unary", "selector", "exprstmt"} -> <<n.x>>
      [] n.k = "index" -> <<n.x, n.index>>
      [] n.k = "call" -> <<n.fun>> \o n.args
      [] n.k = "binary" -> <<n.x, n.y>>
      [] n.k = "keyvalue" -> <<n.key, n.value>>
      [] n.k = "assign" -> n.lhs \o n.rhs
      [] n.k = "return" -> n.results
      [] n.k = "block" -> n.list
      [] n.k = "if" -> n.init \o <<n.cond, n.body>> \o n.else
      [] n.k = "for" -> n.init \o n.cond \o n.post \o <<n.body>>
      [] OTHER -> <<>>

\* Every node of the tree under n, n first, in ast.Walk's order.
RECURSIVE Nodes(_)
RECURSIVE NodesOfList(_, _)
NodesOfList(list, i) ==
    IF i > Len(list) THEN <<>>
    ELSE Nodes(list[i]) \o NodesOfList(list, i + 1)

Nodes(n) == <<n>> \o NodesOfList(Children(n), 1)

\* The nodes under the statements from i on that belong to the enclosing
\* function: closures are not entered.
RECURSIVE OwnNodes(_)
RECURSIVE OwnNodesOfList(_, _)
OwnNodesOfList(list, i) ==
    IF i > Len(list) THEN <<>>
    ELSE OwnNodes(list[i]) \o OwnNodesOfList(list, i + 1)

OwnNodes(n) ==
    IF n.k = "funclit" THEN <<n>>
    ELSE <<n>> \o OwnNodesOfList(Children(n), 1)

\* The type identifiers a node carries itself: a closure's parameter types,
\* a composite literal's written type.
OwnIdents(n) ==
    CASE n.k = "funclit" -> TypeIdentsOfList(ParamTypes(n.params), 1)
      [] n.k = "complit" -> IF n.elided THEN <<>> ELSE TypeIdents(n.typ)
      [] OTHER -> <<>>

RECURSIVE IdentsOfNodes(_, _)
IdentsOfNodes(nodes, i) ==
    IF i > Len(nodes) THEN <<>>
    ELSE OwnIdents(nodes[i]) \o IdentsOfNodes(nodes, i + 1)

StmtListIdents(stmts, i) == IdentsOfNodes(NodesOfList(stmts, i), 1)

\* ast.Inspect(decl, ...) on a FuncDecl: receiver, type parameters,
\* parameters, results, body.
FuncDeclIdents(decl) ==
    TypeIdentsOfList(ParamTypes(decl.recv), 1)
    \o TypeIdentsOfList(decl.constraints, 1)
    \o TypeIdentsOfList(ParamTypes(decl.params), 1)
    \o TypeIdentsOfList(ParamTypes(decl.results), 1)
    \o StmtListIdents(decl.body, 1)

FieldTypes(fields) == [i \in DOMAIN fields |-> fields[i].typ]

\* ast.Inspect(typeSpec, ...): the name, then the declared type.
TypeSpecIdents(typeSpec) ==
    <<typeSpec.name>>
    \o (CASE typeSpec.kind = "struct" ->
                TypeIdentsOfList(FieldTypes(typeSpec.fields), 1)
           [] typeSpec.kind = "interface" ->
                TypeIdentsOfList(typeSpec.methodTypes, 1)
           [] OTHER -> TypeIdents(typeSpec.typ))

\* ident.Obj.Decl is a top-level TypeSpec: the parser resolves an identifier
\* only against the declarations of its own file.
ResolvesToTypeSpec(file, name) ==
    IsDeclared(name) /\ TypeSpecOf(name).file = file

\* A collector that does not look at typeSpecCollected.
CollectableAgain(file, name, collected) == ResolvesToTypeSpec(file, name)

\* The condition under which collectTypeSpecs collects the identifier.
Collectable(file, name, collected) ==
    ResolvesToTypeSpec(file, name) /\ name \notin collected

\* The index of the first identifier of the frame the callback collects,
\* 0 when there is none.
NextCollectable(frame, collected) ==
    LET hits == {i \in DOMAIN frame.idents :
                    Collectable(frame.file, frame.idents[i], collected)}
    IN IF hits = {} THEN 0 ELSE CHOOSE i \in hits : \A j \in hits : i <= j

\* The frame of ast.Inspect on a FuncDecl, and on a TypeSpec.
FuncFrame(decl) ==
    [type |-> "", file |-> decl.file, idents |-> FuncDeclIdents(decl)]

TypeFrame(typeSpec) ==
    [type |-> typeSpec.name, file |-> typeSpec.file,
     idents |-> TypeSpecIdents(typeSpec)]

-----------------------------------------------------------------------------
(* Top-level: the front end *)

\* Every node of every function body.
BodyNodes ==
    LET RECURSIVE all(_)
        all(i) == IF i > Len(src.funcs) THEN <<>>
                  ELSE NodesOfList(src.funcs[i].body, 1) \o all(i + 1)
    IN all(1)

\* A call of a pointer-receiver method on a value that is neither a pointer
\* nor addressable: go/types rejects it.
PointerMethodOnTemporary(n) ==
    /\ n.k = "call"
    /\ IsMethodCall(n)
    /\ n.fun.recv = "pointer"
    /\ ~IsPointerTyped(n.fun.x)
    /\ ~Addressable(n.fun.x)

\* A struct literal naming a field twice: go/types rejects it.
DuplicateKey(n) ==
    /\ n.k = "complit"
    /\ \E i, j \in DOMAIN n.elts :
          /\ i < j
          /\ n.elts[i].k = "keyvalue" /\ n.elts[j].k = "keyvalue"
          /\ n.elts[i].key.k = "ident" /\ n.elts[j].key.k = "ident"
          /\ n.elts[i].key.name = n.elts[j].key.name

\* A terminating statement (Go specification, "Terminating statements").
RECURSIVE Terminating(_)
Terminating(stmt) ==
    CASE stmt.k = "return" -> TRUE
      [] stmt.k = "for" -> stmt.cond = <<>>
      [] stmt.k = "block" ->
           Len(stmt.list) > 0 /\ Terminating(stmt.list[Len(stmt.list)])
      [] stmt.k = "if" ->
           stmt.else # <<>> /\ Terminating(stmt.body) /\ Terminating(stmt.else[1])
      [] OTHER -> FALSE

\* A function with results whose body does not end in a terminating
\* statement: go/types rejects it.
MissingReturn(decl) ==
    decl.results # <<>> /\ decl.body # <<>> /\ ~Terminating(decl.body[1])

\* A return statement of the function listing another number of values
\* than the function has results: go/types rejects it.
WrongReturnCount(decl) ==
    \E k \in DOMAIN OwnNodesOfList(decl.body, 1) :
        /\ OwnNodesOfList(decl.body, 1)[k].k = "return"
        /\ Len(OwnNodesOfList(decl.body, 1)[k].results) # Len(decl.results)

\* A type checker that lets every call of a method through.
TypeChecksAnyCall ==
    /\ src.env # "illtyped"
    /\ \A k \in DOMAIN BodyNodes : ~DuplicateKey(BodyNodes[k])
    /\ \A i \in DOMAIN src.funcs :
          ~MissingReturn(src.funcs[i]) /\ ~WrongReturnCount(src.funcs[i])

\* (&types.Config{}).Check succeeds.
TypeChecks ==
    /\ src.env # "illtyped"
    /\ \A k \in DOMAIN BodyNodes :
          ~PointerMethodOnTemporary(BodyNodes[k]) /\ ~DuplicateKey(BodyNodes[k])
    /\ \A i \in DOMAIN src.funcs :
          ~MissingReturn(src.funcs[i]) /\ ~WrongReturnCount(src.funcs[i])

-----------------------------------------------------------------------------
(* Top-level: compile and main *)

\* The Compiler main constructs: every map and builder still nil.
NewCompiler ==
    [fieldIndices |-> EmptyMap, genTypeExprs |-> EmptyMap,
     genTypeDecls |-> EmptyMap, genTypeDefns |-> EmptyMap,
     genFuncDecls |-> EmptyMap,
     indent |-> 0, errors |-> <<>>, output |-> <<>>, atBlockEnd |-> FALSE,
     panicked |-> FALSE, ret |-> <<>>]

\* A sequence of steps compile may not follow: definitions before
\* declarations.
StepsDefinitionsFirst ==
    <<"readdir", "parse", "typecheck", "include", "collect", "typedefns",
      "typedecls", "funcdecls", "funcdefns", "report", "done">>

\* The steps of compile in program order, then main's report.
Steps ==
    <<"readdir", "parse", "typecheck", "include", "collect", "typedecls",
      "typedefns", "funcdecls", "funcdefns", "report", "done">>

After(step) == Steps[(CHOOSE i \in DOMAIN Steps : Steps[i] = step) + 1]

\* The control state after a step of compile that left the compiler cc:
\* pc to go on, or the end of the process on a panic.
Continue(cc, next) == IF cc.panicked THEN "crashed" ELSE next

\* The section compile has just finished ends where the output ends.
Mark(cc) ==
    IF cc.panicked THEN marks
    ELSE Append(marks, [sec |-> pc, end |-> Len(cc.output)])

\* Collect file paths from directory.  On a ReadDir error compile formats
\* the error into c.errors, which is still nil: the write panics.
ReadDir ==
    /\ pc = "readdir"
    /\ c' = IF src.env = "unreadable" THEN panic(c) ELSE c
    /\ pc' = Continue(c', After("readdir"))
    /\ UNCHANGED <<src, typeSpecs, typeSpecCollected, stack, funcIndex,
                   marks, outFile, stdout>>

\* Initialize maps and builders; parse every file.
Parse ==
    /\ pc = "parse"
    /\ IF src.env = "unparsable"
       THEN /\ c' = [c EXCEPT !.errors = Append(@, [pos |-> 0, msg |-> "parse error"])]
            /\ pc' = "report"
       ELSE /\ c' = c
            /\ pc' = After("parse")
    /\ UNCHANGED <<src, typeSpecs, typeSpecCollected, stack, funcIndex,
                   marks, outFile, stdout>>

TypeCheck ==
    /\ pc = "typecheck"
    /\ IF ~TypeChecks
       THEN /\ c' = [c EXCEPT !.errors = Append(@, [pos |-> 0, msg |-> "type error"])]
            /\ pc' = "report"
       ELSE /\ c' = c
            /\ pc' = After("typecheck")
    /\ UNCHANGED <<src, typeSpecs, typeSpecCollected, stack, funcIndex,
                   marks, outFile, stdout>>

Include ==
    /\ pc = "include"
    /\ c' = write(c, <<"#include \"gx.hh\"\n">>)
    /\ marks' = Mark(c')
    /\ pc' = Continue(c', After("include"))
    /\ UNCHANGED <<src, typeSpecs, typeSpecCollected, stack, funcIndex,
                   outFile, stdout>>

\* for each FuncDecl: ast.Inspect(decl, collectTypeSpecs)
CollectInspect ==
    /\ pc = "collect"
    /\ stack = <<>>
    /\ funcIndex <= Len(src.funcs)
    /\ stack' = <<FuncFrame(src.funcs[funcIndex])>>
    /\ funcIndex' = funcIndex + 1
    /\ UNCHANGED <<src, pc, c, typeSpecs, typeSpecCollected, marks,
                   outFile, stdout>>

\* collectTypeSpecs reaches an identifier whose TypeSpec is top-level and
\* not collected: it marks it and inspects its declaration.
CollectEnter ==
    /\ pc = "collect"
    /\ stack # <<>>
    /\ LET top == Last(stack)
           i == NextCollectable(top, typeSpecCollected)
       IN /\ i # 0
          /\ typeSpecCollected' = typeSpecCollected \cup {top.idents[i]}
          /\ stack' = [stack EXCEPT ![Len(stack)].idents =
                                        SubSeq(@, i + 1, Len(@))]
                       \o <<TypeFrame(TypeSpecOf(top.idents[i]))>>
    /\ UNCHANGED <<src, pc, c, typeSpecs, funcIndex, marks,
                   outFile, stdout>>

\* ast.Inspect returns: a TypeSpec's inspection is followed by its append.
CollectLeave ==
    /\ pc = "collect"
    /\ stack # <<>>
    /\ LET top == Last(stack)
       IN /\ NextCollectable(top, typeSpecCollected) = 0
          /\ typeSpecs' = IF top.type # "" THEN Append(typeSpecs, top.type)
                           ELSE typeSpecs
    /\ stack' = SubSeq(stack, 1, Len(stack) - 1)
    /\ UNCHANGED <<src, pc, c, typeSpecCollected, funcIndex, marks,
                   outFile, stdout>>

CollectDone ==
    /\ pc = "collect"
    /\ stack = <<>>
    /\ funcIndex > Len(src.funcs)
    /\ pc' = After("collect")
    /\ UNCHANGED <<src, c, typeSpecs, typeSpecCollected, stack, funcIndex,
                   marks, outFile, stdout>>

\* The loop over typeSpecs writing the forward declarations, and the one
\* writing the definitions.
writeTypeDecls(specs) == [i \in DOMAIN specs |-> WriteTypeDecl(specs[i])[1]]
writeTypeDefns(specs) == [i \in DOMAIN specs |-> WriteTypeDefn(specs[i])[1]]

\* The loop over the FuncDecls writing the declarations.
writeFuncDecls(funcs) ==
    [i \in 1..(2 * Len(funcs)) |->
        IF i % 2 = 1 THEN WriteFuncDecl(funcs[(i + 1) \div 2])[1]
        ELSE Write(";\n")[1]]

\* The body of the loop over the FuncDecls writing the definitions.
writeFuncDefn(decl) ==
    IF decl.body # <<>>
    THEN Write("\n") \o WriteFuncDecl(decl) \o Write(" ")
         \o writeBlockStmt(decl.body[1]) \o Write("\n")
    ELSE <<>>

RECURSIVE writeFuncDefns(_, _)
writeFuncDefns(funcs, i) ==
    IF i > Len(funcs) THEN <<>>
    ELSE writeFuncDefn(funcs[i]) \o writeFuncDefns(funcs, i + 1)

TypeDecls ==
    /\ pc = "typedecls"
    /\ c' = Run(c, Write("\n\n") \o writeTypeDecls(typeSpecs))
    /\ marks' = Mark(c')
    /\ pc' = Continue(c', After("typedecls"))
    /\ UNCHANGED <<src, typeSpecs, typeSpecCollected, stack, funcIndex,
                   outFile, stdout>>

TypeDefns ==
    /\ pc = "typedefns"
    /\ c' = Run(c, Write("\n") \o writeTypeDefns(typeSpecs))
    /\ marks' = Mark(c')
    /\ pc' = Continue(c', After("typedefns"))
    /\ UNCHANGED <<src, typeSpecs, typeSpecCollected, stack, funcIndex,
                   outFile, stdout>>

FuncDecls ==
    /\ pc = "funcdecls"
    /\ c' = Run(c, Write("\n\n") \o writeFuncDecls(src.funcs))
    /\ marks' = Mark(c')
    /\ pc' = Continue(c', After("funcdecls"))
    /\ UNCHANGED <<src, typeSpecs, typeSpecCollected, stack, funcIndex,
                   outFile, stdout>>

FuncDefns ==
    /\ pc = "funcdefns"
    /\ c' = Run(c, Write("\n") \o writeFuncDefns(src.funcs, 1))
    /\ marks' = Mark(c')
    /\ pc' = Continue(c', After("funcdefns"))
    /\ UNCHANGED <<src, typeSpecs, typeSpecCollected, stack, funcIndex,
                   outFile, stdout>>

\* main, after compile returned: print the errors or write the file.
Report ==
    /\ pc = "report"
    /\ IF errored(c)
       THEN /\ stdout' = c.errors
            /\ outFile' = outFile
       ELSE /\ outFile' = [exists |-> TRUE, text |-> c.output]
            /\ stdout' = stdout
    /\ pc' = After("report")
    /\ UNCHANGED <<src, c, typeSpecs, typeSpecCollected, stack, funcIndex,
                   marks>>

Next ==
    \/ ReadDir
    \/ Parse
    \/ TypeCheck
    \/ Include
    \/ CollectInspect
    \/ CollectEnter
    \/ CollectLeave
    \/ CollectDone
    \/ TypeDecls
    \/ TypeDefns
    \/ FuncDecls
    \/ FuncDefns
    \/ Report

-----------------------------------------------------------------------------
(* The input programs: constructors for the syntax go/parser and go/types  *)
(* hand to compile.  Positions (token.Pos) are integers.                   *)

Field(names, typ, pos) == [names |-> names, typ |-> typ, pos |-> pos]

Param(name, typ, pos) == [name |-> name, typ |-> typ, pos |-> pos]

Result(typ, pos) == [typ |-> typ, pos |-> pos]

StructSpec(name, file, tparams, fields) ==
    [name |-> name, file |-> file, kind |-> "struct", tparams |-> tparams,
     fields |-> fields, typ |-> NilType, typPos |-> 0, methodTypes |-> <<>>]

InterfaceSpec(name, file, tparams, methodTypes) ==
    [name |-> name, file |-> file, kind |-> "interface", tparams |-> tparams,
     fields |-> <<>>, typ |-> NilType, typPos |-> 0,
     methodTypes |-> methodTypes]

\* type name typ (the declared type is neither a struct nor an interface)
OtherSpec(name, file, tparams, typ) ==
    [name |-> name, file |-> file, kind |-> "other", tparams |-> tparams,
     fields |-> <<>>, typ |-> typ, typPos |-> 1, methodTypes |-> <<>>]

\* Positions of the parts of the i-th FuncDecl.
FuncPos(i) == 1000 * i
ResultsPos(i) == FuncPos(i) + 5
ParamPos(i, j) == FuncPos(i) + 10 + j
\* The position of the j-th statement of the i-th function's body.
StmtPos(i, j) == FuncPos(i) + 100 * j

FuncDecl(i, name, file, recv, tparams, constraints, params, results, body) ==
    [name |-> name, file |-> file, pos |-> FuncPos(i), recv |-> recv,
     tparams |-> tparams, constraints |-> constraints, params |-> params,
     results |-> results, resultsPos |-> ResultsPos(i), body |-> body]

Ident(pos, name) ==
    [k |-> "ident", pos |-> pos, name |-> name, builtin |-> FALSE,
     ptr |-> FALSE, addr |-> TRUE]

\* A variable of pointer type.
PtrIdent(pos, name) == [Ident(pos, name) EXCEPT !.ptr = TRUE]

BuiltinIdent(pos, name) ==
    [Ident(pos, name) EXCEPT !.builtin = TRUE, !.addr = FALSE]

BasicLit(pos, kind, value) ==
    [k |-> "basiclit", pos |-> pos, kind |-> kind, value |-> value]

IntLit(pos, value) == BasicLit(pos, "INT", value)

FuncLit(pos, params, body) ==
    [k |-> "funclit", pos |-> pos, params |-> params, body |-> body]

CompositeLit(pos, typ, elided, oneLine, elts) ==
    [k |-> "complit", pos |-> pos, typ |-> typ, elided |-> elided,
     oneLine |-> oneLine, elts |-> elts, ptr |-> FALSE, addr |-> FALSE]

KeyValue(pos, key, value) ==
    [k |-> "keyvalue", pos |-> pos, key |-> key, value |-> value]

\* recv: "none" for a field, "value" or "pointer" for a method by the kind
\* of its receiver parameter.
Selector(pos, x, name, recv) ==
    [k |-> "selector", pos |-> pos, x |-> x, sel |-> Ident(pos + 1, name),
     recv |-> recv, ptr |-> FALSE, addr |-> TRUE]

Call(pos, fun, typeArgs, args) ==
    [k |-> "call", pos |-> pos, fun |-> fun, typeArgs |-> typeArgs,
     args |-> args, ptr |-> FALSE, addr |-> FALSE]

\* &x is a pointer; no unary expression is addressable.
Unary(pos, op, x) ==
    [k |-> "unary", pos |-> pos, op |-> op, x |-> x, ptr |-> op = "&",
     addr |-> FALSE]

Binary(pos, x, op, y) ==
    [k |-> "binary", pos |-> x.pos, opPos |-> pos, op |-> op, x |-> x, y |-> y]

Paren(pos, x) ==
    [k |-> "paren", pos |-> pos, x |-> x, ptr |-> IsPointerTyped(x),
     addr |-> Addressable(x)]

\* *x, x of pointer type: a variable.
Star(pos, x) == [k |-> "star", pos |-> pos, x |-> x, ptr |-> FALSE, addr |-> TRUE]

\* An expression of a kind writeExpr has no case for.
OtherExpr(pos) == [k |-> "otherexpr", pos |-> pos]

ExprStmt(x) == [k |-> "exprstmt", pos |-> x.pos, x |-> x]

Assign(pos, lhs, tok, rhs) ==
    [k |-> "assign", pos |-> pos, lhs |-> lhs, tok |-> tok,
     tokPos |-> pos + 4, rhs |-> rhs]

Return(pos, results) == [k |-> "return", pos |-> pos, results |-> results]

Branch(pos, tok) == [k |-> "branch", pos |-> pos, tok |-> tok]

Block(pos, list) == [k |-> "block", pos |-> pos, list |-> list]

If(pos, init, cond, body, else) ==
    [k |-> "if", pos |-> pos, init |-> init, cond |-> cond, body |-> body,
     else |-> else]

For(pos, init, cond, post, body) ==
    [k |-> "for", pos |-> pos, init |-> init, cond |-> cond, post |-> post,
     body |-> body]

\* A statement of a kind writeStmt has no case for (x++, go, switch, ...).
OtherStmt(pos) == [k |-> "otherstmt", pos |-> pos]

-----------------------------------------------------------------------------
(* Bounds of the input programs *)

\* Most types one struct of the type-graph programs refers to.
MaxRefs == 1
\* Most statements of a generated function body.
MaxStmts == 2
\* Most ordinary parameters of a generated declaration.
MaxParams == 2
\* Most keys of a generated struct literal.
MaxKeys == 2
\* Most ordinary arguments of a generated call.
MaxArgs == 2

FileIds == {1, 2}

TypeNames == <<"A", "B", "C">>

TypeSet == Range(TypeNames)

\* The elements of a set of type names, in the order of TypeNames.
InNameOrder(set) == SelectSeq(TypeNames, LAMBDA t : t \in set)

Sum(f, n) ==
    LET RECURSIVE sum(_)
        sum(i) == IF i > n THEN 0 ELSE f[i] + sum(i + 1)
    IN sum(1)

\* The sequences over set of length at most n.
SeqsUpTo(set, n) == UNION {[1..m -> set] : m \in 0..n}

Program(env, types, funcs) ==
    [env |-> env, pkg |-> "main", types |-> types, funcs |-> funcs]

\* type P struct { x, y, z int }, the struct of the statement programs.
SpecP == StructSpec("P", 1, <<>>, <<Field(<<"x", "y", "z">>, TInt, 11)>>)

TP == Named("P", <<>>)

EmptyBody(i) == <<Block(StmtPos(i, 0), <<>>)>>

(* Type-graph programs: structs A, B, C whose fields point to one another, *)
(* spread over two files, and per file one function naming the roots.      *)

GraphSpec(t, file, refs) ==
    LET to == InNameOrder(refs[t])
    IN StructSpec(t, file[t], <<>>,
           [i \in DOMAIN to |->
               Field(<<"f">>, Pointer(Named(to[i], <<>>)), 20 + i)])

GraphFuncs(file, roots) ==
    LET fs == SelectSeq(<<1, 2>>, LAMBDA f : \E t \in roots : file[t] = f)
        rootsOf(f) == InNameOrder({t \in roots : file[t] = f})
    IN [i \in DOMAIN fs |->
           FuncDecl(i, IF fs[i] = 1 THEN "use1" ELSE "use2", fs[i], <<>>, <<>>,
                    <<>>,
                    [j \in DOMAIN rootsOf(fs[i]) |->
                        Param("p", Pointer(Named(rootsOf(fs[i])[j], <<>>)),
                              ParamPos(i, j))],
                    <<>>, EmptyBody(i))]

GraphProgram(refs, file, roots) ==
    Program("ok", [i \in DOMAIN TypeNames |-> GraphSpec(TypeNames[i], file, refs)],
            GraphFuncs(file, roots))

\* The files the types are declared in, A in the first one, and the sets of
\* types the functions name.
GraphFiles == {file \in [TypeSet -> FileIds] : file["A"] = 1}

GraphRoots == {{"A"}, {"B"}, {"A", "C"}, {"A", "B", "C"}}

GraphPrograms ==
    {GraphProgram(refs, file, roots) :
        refs \in {r \in [TypeSet -> SUBSET TypeSet] :
                     \A t \in TypeSet : Cardinality(r[t]) <= MaxRefs},
        file \in GraphFiles,
        roots \in GraphRoots}

(* Declaration-kind programs: two declarations K and L, each a struct, an  *)
(* interface or another type, generic or not, named by one function.       *)

KindSpec(name, kind, generic) ==
    LET tparams == IF generic THEN <<"T">> ELSE <<>>
    IN CASE kind = "struct" ->
              StructSpec(name, 1, tparams,
                         <<Field(<<"v">>, IF generic THEN TypeParam("T") ELSE TInt, 31)>>)
         [] kind = "interface" -> InterfaceSpec(name, 1, tparams, <<>>)
         [] kind = "float" -> OtherSpec(name, 1, tparams, TFloat64)
         [] OTHER -> OtherSpec(name, 1, tparams, TString)

KindUse(spec) ==
    Named(spec.name, IF spec.tparams # <<>> THEN <<TInt>> ELSE <<>>)

KindProgram(k1, g1, k2, g2) ==
    LET specs == <<KindSpec("K", k1, g1), KindSpec("L", k2, g2)>>
        ifaces == SelectSeq(specs, LAMBDA ts : ts.kind = "interface")
        others == SelectSeq(specs, LAMBDA ts : ts.kind # "interface")
    IN Program("ok", specs,
           <<FuncDecl(1, "f", 1, <<>>,
                      [i \in DOMAIN ifaces |-> IF i = 1 THEN "E" ELSE "F"],
                      [i \in DOMAIN ifaces |-> KindUse(ifaces[i])],
                      [i \in DOMAIN others |->
                          Param(IF i = 1 THEN "a" ELSE "b",
                                Pointer(KindUse(others[i])), ParamPos(1, i))],
                      <<>>, EmptyBody(1))>>)

Kinds == {"struct", "interface", "float", "string"}

KindPrograms ==
    {KindProgram(k1, g1, k2, g2) :
        k1 \in Kinds, g1 \in BOOLEAN, k2 \in Kinds, g2 \in BOOLEAN}

(* Statement programs: the struct P and one function f whose body is       *)
(* generated, over the package-level variables                             *)
(*   var x, a, b int;  var v P;  var q *P;  var g func(int);  var qs *[]P  *)

IntParams(i, n) == [j \in 1..n |-> Param("n", TInt, ParamPos(i, j))]

Results2(i) == <<Result(TInt, ResultsPos(i)), Result(TInt, ResultsPos(i) + 2)>>

\* func f(...) with nres results and the statements list as its body, the
\* i-th declaration of file 1.
FuncF(i, nres, list) ==
    FuncDecl(i, "f", 1, <<>>, <<>>, <<>>, <<>>,
             IF nres = 2 THEN Results2(i) ELSE <<>>,
             <<Block(StmtPos(i, 0), list)>>)

\* x = 1 at position p
AssignOne(p) == Assign(p, <<Ident(p, "x")>>, "=", <<IntLit(p + 6, "1")>>)

\* The statement of the given kind at position p.
PoolStmt(kind, p) ==
    CASE kind = "assign" -> AssignOne(p)
      [] kind = "multi" ->
           \* a, b = 1, 2
           Assign(p, <<Ident(p, "a"), Ident(p + 1, "b")>>, "=",
                  <<IntLit(p + 6, "1"), IntLit(p + 7, "2")>>)
      [] kind = "multiCompl" ->
           \* a, b = ^x, 1
           Assign(p, <<Ident(p, "a"), Ident(p + 1, "b")>>, "=",
                  <<Unary(p + 6, "^", Ident(p + 7, "x")), IntLit(p + 8, "1")>>)
      [] kind = "return2" ->
           Return(p, <<IntLit(p + 7, "1"), IntLit(p + 8, "2")>>)
      [] kind = "return0" -> Return(p, <<>>)
      [] kind = "compl" ->
           \* x = ^x
           Assign(p, <<Ident(p, "x")>>, "=", <<Unary(p + 6, "^", Ident(p + 7, "x"))>>)
      [] kind = "andNot" ->
           \* x &^= x &^ 1
           Assign(p, <<Ident(p, "x")>>, "&^=",
                  <<Binary(p + 8, Ident(p + 6, "x"), "&^", IntLit(p + 9, "1"))>>)
      [] kind = "char" ->
           Assign(p, <<Ident(p, "x")>>, "=", <<BasicLit(p + 6, "CHAR", "'c'")>>)
      [] kind = "if" ->
           \* if x < 1 { x = 1 } else { x = 1 }
           If(p, <<>>, Binary(p + 5, Ident(p + 3, "x"), "<", IntLit(p + 6, "1")),
              Block(p + 10, <<AssignOne(p + 12)>>),
              <<Block(p + 30, <<AssignOne(p + 32)>>)>>)
      [] kind = "forever" -> For(p, <<>>, <<>>, <<>>, Block(p + 10, <<>>))
      [] kind = "for" ->
           \* for i := 0; i < x; i += 1 { continue }
           For(p, <<Assign(p + 4, <<Ident(p + 4, "i")>>, ":=", <<IntLit(p + 9, "0")>>)>>,
               <<Binary(p + 14, Ident(p + 12, "i"), "<", Ident(p + 16, "x"))>>,
               <<Assign(p + 19, <<Ident(p + 19, "i")>>, "+=", <<IntLit(p + 24, "1")>>)>>,
               Block(p + 30, <<Branch(p + 32, "continue")>>))
      [] kind = "block" -> Block(p, <<AssignOne(p + 2)>>)
      [] kind = "closure" ->
           \* g = func(n int) { x = 1 }
           Assign(p, <<Ident(p, "g")>>, "=",
                  <<FuncLit(p + 6, <<Param("n", TInt, p + 11)>>,
                            Block(p + 20, <<AssignOne(p + 22)>>))>>)
      [] kind = "inc" -> OtherStmt(p)
      [] kind = "addrLit" ->
           \* q = &P{}
           Assign(p, <<Ident(p, "q")>>, "=",
                  <<Unary(p + 6, "&", CompositeLit(p + 7, TP, FALSE, TRUE, <<>>))>>)
      [] kind = "field" ->
           \* x = q.x + q.x, the first q dereferenced explicitly
           Assign(p, <<Ident(p, "x")>>, "=",
                  <<Binary(p + 14,
                           Selector(p + 6, Paren(p + 6, Star(p + 7, PtrIdent(p + 8, "q"))),
                                    "x", "none"),
                           "+", Selector(p + 16, PtrIdent(p + 16, "q"), "x", "none"))>>)
      [] OTHER ->
           \* kind = "len": x = len of the slice qs points to
           Assign(p, <<Ident(p, "x")>>, "=",
                  <<Call(p + 6, BuiltinIdent(p + 6, "len"), <<>>,
                         <<Star(p + 10, PtrIdent(p + 11, "qs"))>>)>>)

StmtKinds ==
    {"assign", "multi", "multiCompl", "return2", "return0", "compl", "andNot",
     "char", "if", "forever", "for", "block", "closure", "inc", "addrLit",
     "field", "len"}

BodyProgram(nres, kinds) ==
    Program("ok", <<SpecP>>,
            <<FuncF(1, nres, [j \in DOMAIN kinds |-> PoolStmt(kinds[j], StmtPos(1, j))])>>)

\* The bodies generated: a first statement of any kind, then statements of
\* the kinds that matter after another statement.
TailKinds == {"assign", "multi", "forever", "block", "closure", "return0"}

Bodies ==
    {<<>>}
    \cup {<<kind>> \o tail :
            kind \in StmtKinds, tail \in SeqsUpTo(TailKinds, MaxStmts - 1)}

BodyPrograms ==
    {BodyProgram(nres, kinds) : nres \in {0, 2}, kinds \in Bodies}

(* Literal programs: f's body assigns one struct literal, written with its *)
(* type (v = P{...}) or as the element of a slice literal, the type        *)
(* elided (the assignment to the slice qs points to, of []P{{...}}).       *)

FieldValue(name) ==
    CASE name = "x" -> "1" [] name = "y" -> "2" [] OTHER -> "3"

\* P{k1: v1, ...} at position p; unkeyed P{1, 2, 3} when keys is empty.
StructLit(p, keys, elided, oneLine) ==
    CompositeLit(p, TP, elided, oneLine,
        IF keys = <<>>
        THEN [j \in 1..3 |-> IntLit(p + 10 * j, FormatInt(j)[1])]
        ELSE [j \in DOMAIN keys |->
                 KeyValue(p + 10 * j, Ident(p + 10 * j, keys[j]),
                          IntLit(p + 10 * j + 3, FieldValue(keys[j])))])

LiteralStmt(p, keys, elided, oneLine) ==
    IF elided
    THEN Assign(p, <<Star(p, PtrIdent(p + 1, "qs"))>>, "=",
                <<CompositeLit(p + 6, Slice(TP), FALSE, oneLine,
                               <<StructLit(p + 9, keys, TRUE, oneLine)>>)>>)
    ELSE Assign(p, <<Ident(p, "v")>>, "=", <<StructLit(p + 6, keys, FALSE, oneLine)>>)

LiteralProgram(keys, elided, oneLine) ==
    Program("ok", <<SpecP>>,
            <<FuncF(1, 0, <<LiteralStmt(StmtPos(1, 1), keys, elided, oneLine)>>)>>)

LiteralPrograms ==
    {LiteralProgram(keys, elided, oneLine) :
        keys \in SeqsUpTo({"x", "y", "z"}, MaxKeys),
        elided \in BOOLEAN, oneLine \in BOOLEAN}

(* Call programs: f's body is one call statement.  A method call           *)
(* x.get(...) or x.set(...) on a receiver expression x, with               *)
(*   func (p P) get(n, ...)      func (p *P) set(n, ...)                   *)
(* or a call of a function h(...), of an instantiation id[int](x), or of a *)
(* closure.                                                                *)

\* The receiver expression of the given kind at position p.
ReceiverExpr(kind, p) ==
    CASE kind = "value" -> Ident(p, "v")
      [] kind = "pointer" -> PtrIdent(p, "q")
      [] kind = "deref" -> Paren(p, Star(p + 1, PtrIdent(p + 2, "q")))
      [] kind = "addrOf" -> Paren(p, Unary(p + 1, "&", Ident(p + 2, "v")))
      [] OTHER -> CompositeLit(p, TP, FALSE, TRUE, <<>>)

ReceiverKinds == {"value", "pointer", "deref", "addrOf", "temporary"}

CallArgs(p, n) == [j \in 1..n |-> IntLit(p + 10 * j, FormatInt(j)[1])]

MethodDecl(i, recv, nargs) ==
    FuncDecl(i, IF recv = "pointer" THEN "set" ELSE "get", 1,
             <<Param("p", IF recv = "pointer" THEN Pointer(TP) ELSE TP, ParamPos(i, 0))>>,
             <<>>, <<>>, IntParams(i, nargs), <<>>, EmptyBody(i))

MethodCall(p, xkind, recv, nargs) ==
    Call(p, Selector(p, ReceiverExpr(xkind, p), IF recv = "pointer" THEN "set" ELSE "get", recv),
         <<>>, CallArgs(p, nargs))

MethodCallProgram(xkind, recv, nargs) ==
    Program("ok", <<SpecP>>,
            <<MethodDecl(1, recv, nargs),
              FuncF(2, 0, <<ExprStmt(MethodCall(StmtPos(2, 1), xkind, recv, nargs))>>)>>)

\* h(1, ...), h declared without a body
FuncCallProgram(nargs) ==
    Program("ok", <<SpecP>>,
            <<FuncDecl(1, "h", 1, <<>>, <<>>, <<>>, IntParams(1, nargs), <<>>, <<>>),
              FuncF(2, 0, <<ExprStmt(Call(StmtPos(2, 1), Ident(StmtPos(2, 1), "h"), <<>>,
                                          CallArgs(StmtPos(2, 1), nargs)))>>)>>)

\* func id[T any](t T) { }  and  id[int](1), id[P](v)
InstanceCallProgram(targ) ==
    Program("ok", <<SpecP>>,
            <<FuncDecl(1, "id", 1, <<>>, <<"T">>, <<>>,
                       <<Param("t", TypeParam("T"), ParamPos(1, 1))>>, <<>>, EmptyBody(1)),
              FuncF(2, 0, <<ExprStmt(Call(StmtPos(2, 1), Ident(StmtPos(2, 1), "id"),
                                          <<targ>>,
                                          <<IF targ = TInt THEN IntLit(StmtPos(2, 1) + 10, "1")
                                            ELSE Ident(StmtPos(2, 1) + 10, "v")>>))>>)>>)

\* func(n int) { x = 1 }(1)
ClosureCallProgram ==
    Program("ok", <<SpecP>>,
            <<FuncF(1, 0, <<ExprStmt(Call(StmtPos(1, 1),
                                FuncLit(StmtPos(1, 1), <<Param("n", TInt, StmtPos(1, 1) + 5)>>,
                                        Block(StmtPos(1, 1) + 20, <<AssignOne(StmtPos(1, 1) + 22)>>)),
                                <<>>, CallArgs(StmtPos(1, 1) + 40, 1)))>>)>>)

CallPrograms ==
    {MethodCallProgram(xkind, recv, nargs) :
        xkind \in ReceiverKinds, recv \in {"value", "pointer"}, nargs \in 0..MaxArgs}
    \cup {FuncCallProgram(nargs) : nargs \in 0..MaxArgs}
    \cup {InstanceCallProgram(targ) : targ \in {TInt, TP}}
    \cup {ClosureCallProgram}

(* Parameter programs: one declaration, a function or a method, whose      *)
(* parameters are drawn from types around the 96-byte limit.               *)

FieldNamePool ==
    <<"f1", "f2", "f3", "f4", "f5", "f6", "f7", "f8", "f9", "f10", "f11",
      "f12", "f13", "f14">>

\* type name struct { f1, ..., fn int }
IntsSpec(name, n) ==
    StructSpec(name, 1, <<>>, <<Field(SubSeq(FieldNamePool, 1, n), TInt, 40)>>)

\* type name struct { a, b [6]int; f1, ..., fn int }
ArraysSpec(name, n) ==
    StructSpec(name, 1, <<>>,
               <<Field(<<"a", "b">>, Array(TInt, 6), 44)>>
               \o (IF n > 0 THEN <<Field(SubSeq(FieldNamePool, 1, n), TInt, 40)>>
                   ELSE <<>>))

\* type S12 struct {2 arrays of 6 ints}: 96 bytes;  type S13, an int more: 104;
\* type N struct { s S12; b bool }: 97;  type V12 [12]int: 96;
\* type Box[T any] struct { v [13]T }: 104 as Box[int].
SizeSpecs ==
    <<ArraysSpec("S12", 0), ArraysSpec("S13", 1),
      StructSpec("N", 1, <<>>, <<Field(<<"s">>, Named("S12", <<>>), 41),
                                 Field(<<"b">>, TBool, 42)>>),
      OtherSpec("V12", 1, <<>>, Array(TInt, 12)),
      StructSpec("Box", 1, <<"T">>, <<Field(<<"v">>, Array(TypeParam("T"), 13), 43)>>)>>

FuncParamTypes ==
    {TInt, TString, Named("S12", <<>>), Named("S13", <<>>),
     Pointer(Named("S13", <<>>)), Array(TInt, 13), Slice(TInt), TypeParam("T"),
     Named("N", <<>>), Named("V12", <<>>), Named("Box", <<TInt>>)}

MethodParamTypes == {TInt, Named("S13", <<>>)}

ReceiverTypes ==
    {Named("S12", <<>>), Named("S13", <<>>), Pointer(Named("S13", <<>>)),
     Named("Box", <<TypeParam("T")>>)}

ParamNames == <<"p1", "p2", "p3", "p4">>

ParamsOf(types) ==
    [j \in DOMAIN types |-> Param(ParamNames[j], types[j], ParamPos(1, j))]

\* func w[T any](p1 t1, ...), the type parameter present when a parameter
\* names it.
ParamFuncProgram(types) ==
    Program("ok", SizeSpecs,
            <<FuncDecl(1, "w", 1, <<>>,
                       IF \E j \in DOMAIN types : types[j] = TypeParam("T")
                       THEN <<"T">> ELSE <<>>,
                       <<>>, ParamsOf(types), <<>>, EmptyBody(1))>>)

\* func (r recv) w(p1 t1, ...)
ParamMethodProgram(recv, types) ==
    Program("ok", SizeSpecs,
            <<FuncDecl(1, "w", 1, <<Param("r", recv, ParamPos(1, 0))>>, <<>>,
                       <<>>, ParamsOf(types), <<>>, EmptyBody(1))>>)

ParamPrograms ==
    {ParamFuncProgram(types) : types \in SeqsUpTo(FuncParamTypes, MaxParams)}
    \cup {ParamMethodProgram(recv, types) :
            recv \in ReceiverTypes, types \in SeqsUpTo(MethodParamTypes, MaxParams)}

(* Front-end programs: a directory that cannot be read holds no program;   *)
(* a file that does not parse, a package that does not type-check.         *)

FrontEndPrograms ==
    {Program("unreadable", <<>>, <<>>)}
    \cup {Program(env, <<SpecP>>, <<FuncF(1, 0, <<AssignOne(StmtPos(1, 1))>>)>>) :
            env \in {"unparsable", "illtyped"}}

-----------------------------------------------------------------------------
(* The specification *)

Programs ==
    GraphPrograms \cup KindPrograms \cup BodyPrograms \cup LiteralPrograms
    \cup CallPrograms \cup ParamPrograms \cup FrontEndPrograms

Init ==
    /\ src \in Programs
    /\ pc = "readdir"
    /\ c = NewCompiler
    /\ typeSpecs = <<>>
    /\ typeSpecCollected = {}
    /\ stack = <<>>
    /\ funcIndex = 1
    /\ marks = <<>>
    /\ outFile = [exists |-> FALSE, text |-> <<>>]
    /\ stdout = <<>>

Spec == Init /\ [][Next]_vars

\* compile runs on one goroutine and nothing preempts it for good: a step
\* of the collector that can be taken is taken.
Collect == CollectInspect \/ CollectEnter \/ CollectLeave \/ CollectDone

\* The runs on the programs that differ in their type declarations.
OrdererPrograms == GraphPrograms \cup KindPrograms

InitOrderer == Init /\ src \in OrdererPrograms

FairSpec == InitOrderer /\ [][Next]_vars /\ WF_vars(Collect)

-----------------------------------------------------------------------------
(* What a run is expected to record and to write, read off the input       *)
(* program alone                                                           *)

Diagnostic(pos, msg) == [pos |-> pos, msg |-> msg]

\* The number of times the diagnostic d has been recorded.
Recorded(d) == Cardinality({i \in DOMAIN c.errors : c.errors[i] = d})

\* The run is over: main returned, or the process died.
Ended == pc \in {"done", "crashed"}

\* The type-spec collector is through.
Collected == pc \notin {"readdir", "parse", "typecheck", "include", "collect"}

\* The front end accepts the program.
FrontEndPasses == src.env = "ok" /\ TypeChecks

\* s occurs in t as a run of consecutive tokens.
IsInfix(s, t) ==
    \E i \in 0..(Len(t) - Len(s)) : SubSeq(t, i + 1, i + Len(s)) = s

\* The concatenation of the sequences of ss from i on.
RECURSIVE Flatten(_, _)
Flatten(ss, i) == IF i > Len(ss) THEN <<>> ELSE ss[i] \o Flatten(ss, i + 1)

\* The named types the declaration of the type called n refers to.
References(n) == Range(TypeSpecIdents(TypeSpecOf(n))) \ {n}

\* A type gx has no spelling for occurs in typ.
RECURSIVE Unsupported(_)
Unsupported(typ) ==
    CASE typ.k = "basic" -> typ.name \notin {"bool", "int", "float32", "float64"}
      [] typ.k \in {"pointer", "array", "slice"} -> Unsupported(typ.elem)
      [] typ.k = "named" -> \E i \in DOMAIN typ.targs : Unsupported(typ.targs[i])
      [] typ.k \in {"typeparam", "signature"} -> FALSE
      [] OTHER -> TRUE

TypeOffences(typ, pos) ==
    IF Unsupported(typ) THEN {Diagnostic(pos, "%s not supported")} ELSE {}

\* A composite literal of struct type whose elements are keyed.
IsKeyedStructLit(n) ==
    /\ n.k = "complit"
    /\ Len(n.elts) > 0
    /\ n.elts[1].k = "keyvalue"
    /\ Underlying(n.typ).k = "struct"

\* The position of the i-th key of the literal among the fields of its
\* struct, in declaration order.
KeyOrdinal(n, i) ==
    CHOOSE j \in DOMAIN FieldNames(Underlying(n.typ).fields) :
        FieldNames(Underlying(n.typ).fields)[j] = n.elts[i].key.name

\* Some key of the literal names a field declared before the field of the
\* key to its left.
OutOfOrder(n) ==
    \E i \in 2..Len(n.elts) : KeyOrdinal(n, i) < KeyOrdinal(n, i - 1)

\* The diagnostics the node n calls for by itself, its children apart.
NodeOffences(n) ==
    CASE n.k = "basiclit" ->
           IF n.kind \in {"INT", "FLOAT", "STRING"} THEN {}
           ELSE {Diagnostic(n.pos, "unsupported literal kind")}
      [] n.k = "unary" ->
           IF n.op = "&"
           THEN IF Addressable(n.x) THEN {}
                ELSE {Diagnostic(n.pos, "cannot take address of a temporary object")}
           ELSE IF n.op \in {"+", "-", "!"} THEN {}
           ELSE {Diagnostic(n.pos, "unsupported unary operator")}
      [] n.k = "binary" ->
           IF n.op \in BinaryPassThrough THEN {}
           ELSE {Diagnostic(n.opPos, "unsupported binary operator")}
      [] n.k = "keyvalue" ->
           IF n.key.k = "ident" THEN {}
           ELSE {Diagnostic(n.pos, "unsupported literal key")}
      [] n.k = "complit" ->
           TypeOffences(n.typ, n.pos)
           \cup (IF IsKeyedStructLit(n) /\ OutOfOrder(n)
                 THEN {Diagnostic(n.pos, "struct literal fields must appear in definition order")}
                 ELSE {})
      [] n.k = "funclit" ->
           UNION {TypeOffences(n.params[i].typ, n.params[i].pos) :
                     i \in DOMAIN n.params}
      [] n.k = "call" ->
           UNION {TypeOffences(n.typeArgs[i], n.fun.pos) : i \in DOMAIN n.typeArgs}
      [] n.k = "assign" ->
           IF Len(n.lhs) # 1
           THEN {Diagnostic(n.pos, "multi-value assignment unsupported")}
           ELSE IF n.tok \in AssignPassThrough \cup {":="} THEN {}
           ELSE {Diagnostic(n.tokPos, "unsupported assignment operator")}
      [] n.k = "return" ->
           IF Len(n.results) > 1
           THEN {Diagnostic(n.results[1].pos, "multiple return values not supported")}
           ELSE {}
      [] n.k = "branch" ->
           IF n.tok \in {"break", "continue"} THEN {}
           ELSE {Diagnostic(n.pos, "unsupported branch statement")}
      [] n.k = "otherexpr" -> {Diagnostic(n.pos, "unsupported expression type")}
      [] n.k = "otherstmt" -> {Diagnostic(n.pos, "unsupported statement type")}
      [] OTHER -> {}

\* The diagnostics a parameter or receiver calls for.
ParamOffences(param) ==
    TypeOffences(param.typ, param.pos)
    \cup (CASE Underlying(param.typ).k = "array" ->
                 {Diagnostic(param.pos, "cannot pass array by value, use pointer to array *%s instead")}
            [] Underlying(param.typ).k = "slice" ->
                 {Diagnostic(param.pos, "cannot pass slice by value, use pointer to slice *%s instead")}
            [] OTHER -> {})
    \cup (IF sizeOf(param.typ) > 96
          THEN {Diagnostic(param.pos, "%s is large (%d bytes), consider passing by pointer instead")}
          ELSE {})

\* The diagnostics the signature of a declaration calls for.
SignatureOffences(decl) ==
    (IF Len(decl.results) > 1
     THEN {Diagnostic(decl.resultsPos, "multiple return values not supported")}
     ELSE UNION {TypeOffences(decl.results[i].typ, decl.results[i].pos) :
                    i \in DOMAIN decl.results})
    \cup UNION {ParamOffences((decl.recv \o decl.params)[j]) :
                   j \in DOMAIN (decl.recv \o decl.params)}

\* The diagnostics the declaration of a collected type calls for.
TypeSpecOffences(ts) ==
    CASE ts.kind = "struct" ->
           UNION {TypeOffences(ts.fields[i].typ, ts.fields[i].pos) :
                     i \in DOMAIN ts.fields}
      [] ts.kind = "interface" -> {}
      [] OTHER -> TypeOffences(ts.typ, ts.typPos)

\* One diagnostic for every offending node of the program.
ExpectedDiagnostics ==
    UNION {NodeOffences(BodyNodes[k]) : k \in DOMAIN BodyNodes}
    \cup UNION {SignatureOffences(src.funcs[i]) : i \in DOMAIN src.funcs}
    \cup UNION {TypeSpecOffences(TypeSpecOf(typeSpecs[i])) : i \in DOMAIN typeSpecs}

\* A keyed literal whose type is left to its context: the nil type.
KeyedWithoutType(n) ==
    n.k = "complit" /\ n.elided /\ Len(n.elts) > 0 /\ n.elts[1].k = "keyvalue"

\* The diagnostic d is all the program calls for.
OnlyOffence(d) ==
    /\ ExpectedDiagnostics = {d}
    /\ \A k \in DOMAIN BodyNodes : ~KeyedWithoutType(BodyNodes[k])

\* The text the expression e is written as, on one line.
ExprText(e) == Run(NewCompiler, writeExpr(e)).output

\* ", " and the text of each argument from i on.
RECURSIVE SeparatedArgs(_, _)
SeparatedArgs(args, i) ==
    IF i > Len(args) THEN <<>>
    ELSE <<", ">> \o ExprText(args[i]) \o SeparatedArgs(args, i + 1)

\* The receiver of a method call as its first argument.
AdjustedReceiver(sel) ==
    IF sel.recv = "pointer" /\ ~IsPointerTyped(sel.x)
    THEN <<"&(">> \o ExprText(sel.x) \o <<")">>
    ELSE IF sel.recv = "value" /\ IsPointerTyped(sel.x)
    THEN <<"*(">> \o ExprText(sel.x) \o <<")">>
    ELSE ExprText(sel.x)

\* The text of a method call.
MethodCallText(call) ==
    <<call.fun.sel.name, "(">> \o AdjustedReceiver(call.fun)
    \o SeparatedArgs(call.args, 1) \o <<")">>

\* The sections of the output in their order, and the text of the k-th
\* one once compile has finished it.
SectionOrder == <<"include", "typedecls", "typedefns", "funcdecls", "funcdefns">>

SectionText(k) ==
    SubSeq(c.output, (IF k = 1 THEN 0 ELSE marks[k - 1].end) + 1, marks[k].end)

\* The forward declarations, the definitions and the function declarations
\* as the memo maps hold them, in the emission order.
TypeDeclTexts ==
    Flatten([i \in DOMAIN typeSpecs |->
                IF c.genTypeDecls[typeSpecs[i]] # <<>>
                THEN c.genTypeDecls[typeSpecs[i]] \o <<";\n">> ELSE <<>>], 1)

TypeDefnTexts ==
    Flatten([i \in DOMAIN typeSpecs |->
                IF c.genTypeDefns[typeSpecs[i]] # <<>>
                THEN <<"\n">> \o c.genTypeDefns[typeSpecs[i]] \o <<";\n">>
                ELSE <<>>], 1)

FuncDeclTexts ==
    Flatten([i \in DOMAIN src.funcs |->
                c.genFuncDecls[src.funcs[i].name] \o <<";\n">>], 1)

\* The text the k-th section is to hold.
SectionHolds(k) ==
    CASE k = 1 -> SectionText(1) = <<"#include \"gx.hh\"\n">>
      [] k = 2 -> SectionText(2) = <<"\n\n">> \o TypeDeclTexts
      [] k = 3 -> SectionText(3) = <<"\n">> \o TypeDefnTexts
      [] k = 4 -> SectionText(4) = <<"\n\n">> \o FuncDeclTexts
      [] OTHER ->
           /\ Len(SectionText(5)) > 0 /\ SectionText(5)[1] = "\n"
           /\ marks[5].end = Len(c.output)
           /\ \A i \in DOMAIN src.funcs :
                 src.funcs[i].body # <<>> =>
                    IsInfix(<<"\n">> \o c.genFuncDecls[src.funcs[i].name]
                            \o <<" ", "{\n">>,
                            SectionText(5))

\* The collected declarations that are not interfaces.
Emitted == SelectSeq(typeSpecs, LAMBDA n : TypeSpecOf(n).kind # "interface")

-----------------------------------------------------------------------------
(* The claims *)

\* C1: once the type-spec collector is through, for every two distinct
\* emitted types A and B, if the declaration of A references B then B is
\* placed before A in the emission order.
C1_DependencyOrdering ==
    Collected =>
        \A i, j \in DOMAIN typeSpecs :
            i # j /\ typeSpecs[j] \in References(typeSpecs[i]) => j < i

\* C1, the case: an artifact whose emission order places A before a type B
\* that A references and that references nothing itself.
C1_ReferencedTypeAfter ==
    /\ outFile.exists
    /\ \E i, j \in DOMAIN typeSpecs :
          /\ i < j
          /\ typeSpecs[j] \in References(typeSpecs[i])
          /\ References(typeSpecs[j]) = {}
          /\ TypeSpecOf(typeSpecs[i]).file # TypeSpecOf(typeSpecs[j]).file

\* C2: at the end of a run the artifact is written if and only if no
\* diagnostic has been recorded, and diagnostics recorded are reported.
C2_AllOrNothing ==
    Ended =>
        /\ outFile.exists <=> ~errored(c)
        /\ errored(c) => stdout = c.errors

\* C2, the case: the input directory cannot be read, and the run ends with
\* neither an artifact nor a diagnostic.
C2_NeitherArtifactNorDiagnostic ==
    /\ pc = "crashed"
    /\ src.env = "unreadable"
    /\ ~outFile.exists
    /\ ~errored(c)
    /\ stdout = <<>>

\* C3: at the end of a run of a program the front end accepts, every keyed
\* composite literal of struct type has exactly one "definition order"
\* diagnostic, and the run no artifact, when one of its keys names a field
\* declared before the field of the key to its left, and no such diagnostic
\* otherwise.
C3_FieldOrder ==
    Ended /\ FrontEndPasses =>
        \A k \in DOMAIN BodyNodes :
            IsKeyedStructLit(BodyNodes[k]) =>
                /\ Recorded(Diagnostic(BodyNodes[k].pos,
                                       "struct literal fields must appear in definition order"))
                      = (IF OutOfOrder(BodyNodes[k]) THEN 1 ELSE 0)
                /\ OutOfOrder(BodyNodes[k]) => ~outFile.exists

\* C3, the case: a run ended on a keyed struct literal with two keys out of
\* order, and no diagnostic names it.
C3_OutOfOrderUnreported ==
    /\ Ended
    /\ FrontEndPasses
    /\ \E k \in DOMAIN BodyNodes :
          /\ IsKeyedStructLit(BodyNodes[k])
          /\ OutOfOrder(BodyNodes[k])
          /\ Recorded(Diagnostic(BodyNodes[k].pos,
                                 "struct literal fields must appear in definition order")) = 0

\* C4: once the function bodies are written, every call of a method stands
\* in the output as the method name and an argument list that opens with
\* the receiver expression - inside "&(" ")" exactly when the method has a
\* pointer receiver and the expression is a value, inside "*(" ")" exactly
\* when the method has a value receiver and the expression is a pointer, as
\* it is otherwise - and goes on with the arguments, ", " before each.
C4_ReceiverAdjustment ==
    pc \in {"report", "done"} /\ Len(marks) = 5 =>
        \A k \in DOMAIN BodyNodes :
            BodyNodes[k].k = "call" /\ IsMethodCall(BodyNodes[k]) =>
                IsInfix(MethodCallText(BodyNodes[k]), c.output)

\* C4, the case: an artifact holding a call of a pointer-receiver method on
\* a value, with two arguments.
C4_AddressOfValueReceiver ==
    /\ outFile.exists
    /\ \E k \in DOMAIN BodyNodes :
          /\ BodyNodes[k].k = "call" /\ IsMethodCall(BodyNodes[k])
          /\ BodyNodes[k].fun.recv = "pointer"
          /\ ~IsPointerTyped(BodyNodes[k].fun.x)
          /\ Len(BodyNodes[k].args) = 2
          /\ IsInfix(<<"set", "(", "&(", "v", ")", ", ", "1", ", ", "2", ")">>,
                     outFile.text)

\* A program calling a pointer-receiver method on a value that is not
\* addressable.
CallsPointerMethodOnTemporary ==
    \E k \in DOMAIN BodyNodes : PointerMethodOnTemporary(BodyNodes[k])

AllParams(decl) == decl.recv \o decl.params

\* C6: once genFuncDecl has generated a declaration, each of its
\* parameters, the receiver included, has exactly one "is large" diagnostic
\* when sizeOf gives more than 96 bytes for its type, and then the run ends
\* without an artifact; it has none when sizeOf gives 96 bytes or less.
C6_OversizedParameter ==
    \A i \in DOMAIN src.funcs :
        src.funcs[i].name \in DOMAIN c.genFuncDecls =>
            \A j \in DOMAIN AllParams(src.funcs[i]) :
                /\ Recorded(Diagnostic(AllParams(src.funcs[i])[j].pos,
                                       "%s is large (%d bytes), consider passing by pointer instead"))
                      = (IF sizeOf(AllParams(src.funcs[i])[j].typ) > 96 THEN 1 ELSE 0)
                /\ sizeOf(AllParams(src.funcs[i])[j].typ) > 96 => ~outFile.exists

\* C6, the case: a run ended on a declaration with a parameter of 96 bytes,
\* not reported, and one of 104 bytes, reported.
C6_AtAndAboveTheLimit ==
    /\ pc = "done"
    /\ \E i \in DOMAIN src.funcs :
          \E j, k \in DOMAIN src.funcs[i].params :
              /\ sizeOf(src.funcs[i].params[j].typ) = 96
              /\ sizeOf(src.funcs[i].params[k].typ) = 104
              /\ Recorded(Diagnostic(src.funcs[i].params[j].pos,
                                     "%s is large (%d bytes), consider passing by pointer instead")) = 0
              /\ Recorded(Diagnostic(src.funcs[i].params[k].pos,
                                     "%s is large (%d bytes), consider passing by pointer instead")) = 1
    /\ ~outFile.exists

\* C7: a run of a program the front end accepts, whose only offending
\* construct is a function with two results, ends with exactly the one
\* diagnostic at the result list and without an artifact; one whose only
\* offending construct is an assignment with two targets ends with exactly
\* the one diagnostic at the assignment and without an artifact.
C7_Rejection ==
    Ended /\ FrontEndPasses =>
        /\ \A i \in DOMAIN src.funcs :
              /\ Len(src.funcs[i].results) = 2
              /\ OnlyOffence(Diagnostic(src.funcs[i].resultsPos,
                                        "multiple return values not supported"))
              => /\ pc = "done"
                 /\ c.errors = <<Diagnostic(src.funcs[i].resultsPos,
                                            "multiple return values not supported")>>
                 /\ stdout = c.errors
                 /\ ~outFile.exists
        /\ \A k \in DOMAIN BodyNodes :
              /\ BodyNodes[k].k = "assign"
              /\ Len(BodyNodes[k].lhs) = 2
              /\ OnlyOffence(Diagnostic(BodyNodes[k].pos,
                                        "multi-value assignment unsupported"))
              => /\ pc = "done"
                 /\ c.errors = <<Diagnostic(BodyNodes[k].pos,
                                            "multi-value assignment unsupported")>>
                 /\ stdout = c.errors
                 /\ ~outFile.exists

\* C7, the case: a run ended on a program whose one offence is a function
\* with two results and a body, its signature generated for the declaration
\* and for the definition.
C7_TwoResultsOnce ==
    /\ pc = "done"
    /\ Len(marks) = 5
    /\ \E i \in DOMAIN src.funcs :
          /\ Len(src.funcs[i].results) = 2
          /\ src.funcs[i].body # <<>>
          /\ OnlyOffence(Diagnostic(src.funcs[i].resultsPos,
                                    "multiple return values not supported"))
          /\ Len(c.errors) = 1

\* C8: the sections of the output are finished in the fixed order, each
\* ends where the next begins, the finished ones hold the include line, the
\* forward declarations of the collected types, their definitions in the
\* same order, the declaration of every function, and the function bodies,
\* and the artifact is the output of all five.
C8_SectionOrder ==
    /\ Len(marks) <= Len(SectionOrder)
    /\ \A k \in DOMAIN marks :
          /\ marks[k].sec = SectionOrder[k]
          /\ k > 1 => marks[k - 1].end <= marks[k].end
          /\ marks[k].end <= Len(c.output)
          /\ SectionHolds(k)
    /\ outFile.exists => Len(marks) = 5 /\ outFile.text = c.output

\* C8, the case: an artifact with two collected types and two functions.
C8_ArtifactOfFiveSections ==
    /\ outFile.exists
    /\ Len(marks) = 5
    /\ Len(typeSpecs) >= 2
    /\ Len(src.funcs) >= 2
    /\ Len(TypeDefnTexts) > 0

\* C9: genTypeDecl and genTypeDefn return the empty text for every
\* interface declaration, and the forward-declaration section and the
\* definition section hold the texts of the other collected declarations
\* only.
C9_ConstraintErasure ==
    /\ \A i \in DOMAIN typeSpecs :
          TypeSpecOf(typeSpecs[i]).kind = "interface" =>
              /\ typeSpecs[i] \in DOMAIN c.genTypeDecls =>
                    c.genTypeDecls[typeSpecs[i]] = <<>>
              /\ typeSpecs[i] \in DOMAIN c.genTypeDefns =>
                    c.genTypeDefns[typeSpecs[i]] = <<>>
    /\ Len(marks) >= 2 =>
          SectionText(2) =
              <<"\n\n">>
              \o Flatten([i \in DOMAIN Emitted |->
                             c.genTypeDecls[Emitted[i]] \o <<";\n">>], 1)

\* C9, the case: an artifact holding the template prologue of a generic
\* interface and a terminator.
C9_PrologueOfInterface ==
    /\ outFile.exists
    /\ \E i \in DOMAIN typeSpecs :
          /\ TypeSpecOf(typeSpecs[i]).kind = "interface"
          /\ TypeSpecOf(typeSpecs[i]).tparams = <<"T">>
    /\ IsInfix(<<"template<", "typename ", "T", ">\n", ";\n">>, outFile.text)

\* C10: at the end of a run of a program the front end accepts, the
\* diagnostics recorded hold one for every offending node of the program.
C10_BestEffort ==
    pc = "done" /\ FrontEndPasses =>
        ExpectedDiagnostics \subseteq Range(c.errors)

\* C10, the case: a run ended on an assignment with two targets whose right
\* side holds an unsupported operator, reported for the assignment alone.
C10_OperandNotVisited ==
    /\ pc = "done"
    /\ FrontEndPasses
    /\ \E k \in DOMAIN BodyNodes :
          /\ BodyNodes[k].k = "unary"
          /\ BodyNodes[k].op = "^"
          /\ Recorded(Diagnostic(BodyNodes[k].pos, "unsupported unary operator")) = 0
    /\ Len(c.errors) = 1

\* The number of ast.Inspect calls on the declaration of t that are under
\* way, and the number of times t stands in the emission order.
Traversals(t) == Cardinality({i \in DOMAIN stack : stack[i].type = t})

Appends(t) == Cardinality({i \in DOMAIN typeSpecs : typeSpecs[i] = t})

\* The declaration of t names t in its declared type.
RefersToItself(t) ==
    \E i \in 2..Len(TypeSpecIdents(TypeSpecOf(t))) :
        TypeSpecIdents(TypeSpecOf(t))[i] = t

\* C11: the type-spec collection of compile terminates, whatever the
\* references between the declarations; a declaration is marked collected
\* before it is traversed, and a collected declaration is either being
\* traversed, once, or appended to the emission order, once, never both.
C11_OrdererTermination ==
    /\ [](\A i \in DOMAIN src.types :
            Traversals(src.types[i].name) + Appends(src.types[i].name)
                = (IF src.types[i].name \in typeSpecCollected THEN 1 ELSE 0))
    /\ (pc = "collect" ~> pc # "collect")

\* C11, the case: the collection is through on a declaration that refers to
\* itself and two that refer to each other, each appended.
C11_CyclesCollected ==
    /\ pc = "done"
    /\ \E t, u, v \in typeSpecCollected :
          /\ RefersToItself(t)
          /\ u # v
          /\ u \in References(v) /\ v \in References(u)
          /\ TypeSpecOf(u).file = TypeSpecOf(v).file
          /\ Appends(t) = 1 /\ Appends(u) = 1 /\ Appends(v) = 1

\* The statement is a block, or ends in the block of an if or of a for.
EndsInBlock(stmt) == stmt.k \in {"block", "if", "for"}

\* The line of a statement of a block at depth d behind the line end t, as
\* the claim has it: the text of the statement, ";" unless the statement
\* ends in a block, and the end of the line.
StmtLine(stmt, d, t) ==
    Run([NewCompiler EXCEPT !.indent = d, !.output = <<t>>],
        writeStmt(stmt)
        \o (IF EndsInBlock(stmt) THEN <<>> ELSE Write(";"))
        \o Write("\n")).output

\* The line of the statement stands in the output at some depth, behind a
\* line end.
StmtLineWritten(stmt) ==
    \E d \in 1..Len(BodyNodes) :
        \E t \in {"{\n", "\n"} : IsInfix(StmtLine(stmt, d, t), c.output)

\* C12: once the function bodies are written, every statement of every
\* block, closure bodies included, stands in the output followed by ";"
\* exactly when it does not end in the closing brace of a block, an if or
\* a for - a statement ending in the body of a closure has its ";", and so
\* has a statement that follows one ending in a block.
C12_StatementTerminator ==
    pc \in {"report", "done"} /\ Len(marks) = 5 =>
        \A k \in DOMAIN BodyNodes :
            BodyNodes[k].k = "block" =>
                \A i \in DOMAIN BodyNodes[k].list :
                    StmtLineWritten(BodyNodes[k].list[i])

\* C12, the case: an artifact of a body whose first statement ends in a
\* block and is not terminated, and whose second ends in the body of a
\* closure and is.
C12_ClosureAfterBlock ==
    /\ outFile.exists
    /\ \E k \in DOMAIN BodyNodes :
          /\ BodyNodes[k].k = "block"
          /\ Len(BodyNodes[k].list) = 2
          /\ EndsInBlock(BodyNodes[k].list[1])
          /\ BodyNodes[k].list[2].k = "assign"
          /\ BodyNodes[k].list[2].rhs[1].k = "funclit"
          /\ StmtLineWritten(BodyNodes[k].list[1])
          /\ StmtLineWritten(BodyNodes[k].list[2])
    /\ IsInfix(<<"}", "\n", " ", " ", "g">>, outFile.text)
    /\ IsInfix(<<"}", ";", "\n", "}", "\n">>, outFile.text)

====
